---- MODULE Spec2Model ----
(***************************************************************************)
(* Positron: single-pass Pratt compiler (parser.c), bytecode blocks        *)
(* (block.c) and the stack-machine interpreter (interpreter.c).            *)
(*                                                                         *)
(* A run is: parser_init, then parse_script, one top-level statement() per *)
(* step, then interpret(), one opcode dispatch per step.  interpret() is   *)
(* also started directly on hand-assembled blocks.                         *)
(***************************************************************************)
EXTENDS Integers, Sequences, FiniteSets, TLC

(***************************************************************************)
(* Limits of the program (positron.h, parser.h, stdint.h).                 *)
(***************************************************************************)
STACK_SIZE == 255
MAX_FRAMES == 255
UINT8_MAX == 255
UINT16_MAX == 65535
\* size_t arithmetic wraps modulo 2^64; a wrapped instruction pointer lies above
\* every block size, and the model folds the modulus to the largest integer
\* TLC represents
SIZE_MAX1 == 2147483647

(***************************************************************************)
(* Bounds of the model.                                                    *)
(***************************************************************************)
MaxOut == 4
\* the generated functions take up to MaxParams parameters and declare up to
\* MaxLocals locals; the generated blocks declare up to MaxLocals locals
MaxParams == 2
MaxLocals == 2

(***************************************************************************)
(* enum OpCode (block.h), in declaration order.                            *)
(***************************************************************************)
OP_NOP == 0
OP_POP == 1
OP_DUPE == 2
OP_SWAP == 3
OP_EXIT == 4
OP_RETURN == 5
OP_PRINT == 6
OP_GLOBAL_DEFINE == 7
OP_GLOBAL_SET == 8
OP_GLOBAL_GET == 9
OP_LOCAL_SET == 10
OP_LOCAL_GET == 11
OP_NEGATE == 12
OP_ADD == 13
OP_SUB == 14
OP_MUL == 15
OP_DIV == 16
OP_NOT == 17
OP_LT == 18
OP_GT == 19
OP_LTE == 20
OP_GTE == 21
OP_EQ == 22
OP_NEQ == 23
OP_CONSTANT == 24
OP_CALL == 25
OP_FIELD_GET == 26
OP_FIELD_SET == 27
OP_JUMP == 28
OP_JUMP_BACK == 29
OP_CJUMPF == 30
OP_CJUMPT == 31
\* interpret() has cases for two opcodes that follow the enum of block.h
OP_LIST == 32
OP_INDEX == 33

(***************************************************************************)
(* Value (value.h): a tag and a payload.  The payload of a Bool is 0 or 1, *)
(* of a Number its value, of an Obj the index of the object in `objects'.  *)
(***************************************************************************)
value_new_null == [t |-> "null", n |-> 0]
value_new_boolean(b) == [t |-> "bool", n |-> IF b THEN 1 ELSE 0]
value_new_number(x) == [t |-> "num", n |-> x]
value_new_object(id) == [t |-> "obj", n |-> id]

\* value.c value_is_truthy
value_is_truthy(v) ==
  CASE v.t = "null" -> FALSE
    [] v.t = "bool" -> v.n = 1
    [] v.t = "num" -> v.n # 0
    [] v.t = "obj" -> v.n # 0
    [] OTHER -> FALSE

(***************************************************************************)
(* State.                                                                  *)
(*   pc       where the process is: "parse" (parse_script loop), "parsed"  *)
(*            (parse_script returned a function), "rejected" (it returned  *)
(*            NULL), "run" (interpret loop), "done" (interpret returned),  *)
(*            "fatal" (exit(1) with a diagnostic), "crash" (NULL call or   *)
(*            dereference), "hang" (a loop that cannot end)                *)
(*            and "lex" (a client calls lexer_next_token), "table" (a      *)
(*            client calls hash_table_set and hash_table_delete)           *)
(*            and "list" (a client calls the functions of dyn_list.h)      *)
(*   dynList  a dyn_list (dyn_list.h) of that client                       *)
(*   elems    the sequence of elements that client has built by its calls  *)
(*   hashTable  a HashTable (hash_table.h) of that client                  *)
(*   lexer    struct Lexer (lexer.h): input is the memory from the first   *)
(*            character of the source on, index counts from 0              *)
(*   token    the Token lexer_next_token returned last (token.h); start is *)
(*            the offset in lexer.input to which the pointer points        *)
(*   src      the token stream the lexer hands to the parser               *)
(*   parser   struct Parser (parser.h)                                     *)
(*   objects  every PObject ever allocated, by index (object.h)            *)
(*   heap     interpreter.heap: the allocation list, head first            *)
(*   stack, sp, frames, fp, globals   struct Interpreter (interpreter.h)   *)
(*   result   the InterpretResult returned by interpret                    *)
(*   out      the values PRINT wrote, in order                             *)
(*   effects  the pairs <<opcode, stack-depth change>> of the dispatches    *)
(***************************************************************************)
VARIABLES pc, dynList, elems, hashTable, lexer, token, src, parser, objects,
          heap, stack, sp, frames, fp, globals, result, out, effects

vars == <<pc, dynList, elems, hashTable, lexer, token, src, parser, objects,
          heap, stack, sp, frames, fp, globals, result, out, effects>>

(***************************************************************************)
(* Objects (object.h / object.c).                                          *)
(***************************************************************************)
\* object.c p_object_string_new_n / p_object_string_new
PString(text) ==
  [type |-> "P_OBJ_STRING", value |-> text, name |-> 0, arity |-> 0,
   opcodes |-> <<>>, constants |-> <<>>,
   parameters |-> <<>>, returnType |-> value_new_null]

\* object.c p_object_function_new: arity 0 and a fresh block (block_new)
PFunction(nameId, retType) ==
  [type |-> "P_OBJ_FUNCTION", value |-> "", name |-> nameId, arity |-> 0,
   opcodes |-> <<>>, constants |-> <<>>,
   parameters |-> <<>>, returnType |-> retType]

\* object.c p_object_builtin_new; `value' names the host function
PBuiltin(nameId, fn, argc) ==
  [type |-> "P_OBJ_BUILTIN", value |-> fn, name |-> nameId, arity |-> argc,
   opcodes |-> <<>>, constants |-> <<>>,
   parameters |-> <<>>, returnType |-> value_new_null]

\* object.c p_object_struct_template_new: hash_table_init(&template->fields);
\* the table is written as the record hash_table_init further on defines
PStructTemplate(nameId) ==
  [type |-> "P_OBJ_STRUCT_TEMPLATE", name |-> nameId,
   fields |-> [count |-> 0, capacity |-> 0, entries |-> <<>>]]

\* object.c p_object_struct_instance_new
PStructInstance(template) ==
  [type |-> "P_OBJ_STRUCT_INSTANCE", template |-> template,
   fields |-> [count |-> 0, capacity |-> 0, entries |-> <<>>]]

(***************************************************************************)
(* The hash table (hash_table.h / hash_table.c).  A pointer is NULL or     *)
(* holds what it points to: a key is a string, given by its characters, a  *)
(* value is a Value.  entries[i + 1] is the Entry at index i.              *)
(***************************************************************************)
NULL == <<>>
Ptr(x) == <<x>>

Alphabet ==
  <<"a", "b", "c", "d", "e", "f", "g", "h", "i", "j", "k", "l", "m", "n", "o",
    "p", "q", "r", "s", "t", "u", "v", "w", "x", "y", "z">>

\* the code of a lower-case letter in the execution character set (ASCII)
CharCode(c) == 96 + (CHOOSE i \in 1..Len(Alphabet) : Alphabet[i] = c)

RECURSIVE BitXor(_, _)
\* a ^ b on naturals
BitXor(a, b) ==
  IF a = 0 THEN b
  ELSE IF b = 0 THEN a
  ELSE 2 * BitXor(a \div 2, b \div 2) + ((a + b) % 2)

\* the low 16 bits of a uint32_t
Low16(x) == x % 65536

RECURSIVE hashFrom(_, _, _)
\* the loop of hashString: hash ^= key[i]; hash *= 16777619.  The low 16
\* bits of a product and of an exclusive or depend on the low 16 bits of
\* the operands only, and 16777619 is 2^24 + 403
hashFrom(hash, key, i) ==
  IF i > Len(key) THEN hash
  ELSE hashFrom(Low16(BitXor(hash, CharCode(key[i])) * 403), key, i + 1)

\* hash_table.h hashString, as far as findEntry uses it: the low 16 bits of
\* the hash, which decide the index while the capacity is at most 2^16
\* (the low 16 bits of 2166136261 are 40389)
hashString(key) == hashFrom(40389, key, 1)

\* hash & (capacity - 1) for a capacity that is a power of two
Mask(hash, capacity) == hash % capacity

\* hash_table_init
hash_table_init == [count |-> 0, capacity |-> 0, entries |-> <<>>]

RECURSIVE findFrom(_, _, _, _, _, _)
\* the loop of findEntry from index on: tombstone is the index of the first
\* tombstone passed, -1 for none; probes counts the entries looked at.  The
\* loop ends at a free entry or at the key only: without either it runs for
\* ever, -2
findFrom(entries, capacity, key, index, tombstone, probes) ==
  LET entry == entries[index + 1]
  IN IF probes >= capacity THEN 0 - 2
     ELSE IF entry.key = NULL /\ entry.value = NULL
     THEN (IF tombstone # 0 - 1 THEN tombstone ELSE index)
     ELSE IF entry.key = NULL
     THEN findFrom(entries, capacity, key, Mask(index + 1, capacity),
                   IF tombstone = 0 - 1 THEN index ELSE tombstone, probes + 1)
     ELSE IF entry.key = Ptr(key) THEN index
     ELSE findFrom(entries, capacity, key, Mask(index + 1, capacity),
                   tombstone, probes + 1)

\* findEntry: the index of the entry of key, or of the entry to put it in
findEntry(entries, capacity, key) ==
  findFrom(entries, capacity, key, Mask(hashString(key), capacity), 0 - 1, 0)

RECURSIVE adjustFrom(_, _, _, _, _)
\* the copy loop of adjustCapacity from old index i on
adjustFrom(old, entries, capacity, count, i) ==
  IF i >= Len(old) THEN [count |-> count, capacity |-> capacity,
                         entries |-> entries]
  ELSE IF old[i + 1].key = NULL
  THEN adjustFrom(old, entries, capacity, count, i + 1)
  ELSE adjustFrom(old,
                  [entries EXCEPT
                     ![findEntry(entries, capacity, old[i + 1].key[1]) + 1] =
                       old[i + 1]],
                  capacity, count + 1, i + 1)

\* an adjustCapacity that copies every entry to the index it had
adjustCapacity_in_place(T, capacity) ==
  [count |-> Cardinality({i \in 1..T.capacity : T.entries[i].key # NULL}),
   capacity |-> capacity,
   entries |-> [i \in 1..capacity |->
                  IF i <= T.capacity THEN T.entries[i]
                  ELSE [key |-> NULL, value |-> NULL]]]

\* adjustCapacity
adjustCapacity(T, capacity) ==
  adjustFrom(T.entries, [i \in 1..capacity |-> [key |-> NULL, value |-> NULL]],
             capacity, 0, 0)

\* hash_table_get: NULL or the pointer to the value
hash_table_get(T, key) ==
  IF T.count = 0 THEN NULL
  ELSE LET entry == T.entries[findEntry(T.entries, T.capacity, key) + 1]
       IN IF entry.key = NULL THEN NULL ELSE entry.value

\* a table that grows only when it is full
Grown_when_full(T) ==
  IF T.count + 1 > T.capacity
  THEN adjustCapacity(T, IF T.capacity < 8 THEN 8 ELSE T.capacity * 2)
  ELSE T

\* the first statement of hash_table_set: count + 1 > capacity * 0.75
Grown(T) ==
  IF 4 * (T.count + 1) > 3 * T.capacity
  THEN adjustCapacity(T, IF T.capacity < 8 THEN 8 ELSE T.capacity * 2)
  ELSE T

\* hash_table_set on the entries (hash_table_set further on is the mapping
\* this maintains); ret is the bool returned
HashTableSet(T, key, value) ==
  LET G == Grown(T)
      at == findEntry(G.entries, G.capacity, key) + 1
      isNewKey == G.entries[at].key = NULL
  IN [table |-> [G EXCEPT
                   !.count = IF isNewKey /\ G.entries[at].value = NULL
                             THEN @ + 1 ELSE @,
                   !.entries[at] = [key |-> Ptr(key), value |-> Ptr(value)]],
      ret |-> isNewKey]

\* the value hash_table_delete stores: a clone of Null with data -1
Tombstone == [t |-> "null", n |-> 0 - 1]

\* hash_table_delete; ret is the bool returned
hash_table_delete(T, key) ==
  IF T.count = 0 THEN [table |-> T, ret |-> FALSE]
  ELSE LET at == findEntry(T.entries, T.capacity, key) + 1
       IN IF T.entries[at].key = NULL THEN [table |-> T, ret |-> FALSE]
          ELSE [table |-> [T EXCEPT !.entries[at].value = Ptr(Tombstone)],
                ret |-> TRUE]

(***************************************************************************)
(* The dynamic list (dyn_list.h / dyn_list.c).  data[i + 1] is data[i] of  *)
(* the C array, which has capacity elements; an element of the array that  *)
(* was never written since malloc or realloc holds an indeterminate value, *)
(* which is no element that a caller supplied.                             *)
(***************************************************************************)
Indeterminate == "indeterminate"

\* dyn_list_new
dyn_list_new ==
  [data |-> [i \in 1..8 |-> Indeterminate], size |-> 0, capacity |-> 8]

\* if (list->size == list->capacity) { capacity *= 2; realloc }
dyn_list_grow(list) ==
  IF list.size = list.capacity
  THEN [list EXCEPT !.capacity = 2 * @,
                    !.data = @ \o [i \in 1..list.capacity |-> Indeterminate]]
  ELSE list

\* dyn_list_add
dyn_list_add(list, data) ==
  LET grown == dyn_list_grow(list)
  IN [grown EXCEPT !.data[grown.size + 1] = data, !.size = @ + 1]

\* dyn_list_insert: the elements from index on move up by one, from the last
\* one down
dyn_list_insert(list, index, data) ==
  IF index >= list.capacity THEN list
  ELSE LET grown == dyn_list_grow(list)
       IN [grown EXCEPT
             !.data = [i \in 1..grown.capacity |->
                         IF i - 1 = index THEN data
                         ELSE IF i - 1 > index /\ i - 1 <= grown.size
                         THEN grown.data[i - 1]
                         ELSE grown.data[i]],
             !.size = @ + 1]

\* dyn_list_remove: the elements after index move down by one
dyn_list_remove(list, index) ==
  IF index >= list.size THEN list
  ELSE [list EXCEPT
          !.data = [i \in 1..list.capacity |->
                      IF i - 1 >= index /\ i - 1 < list.size - 1
                      THEN list.data[i + 1]
                      ELSE list.data[i]],
          !.size = @ - 1]

\* dyn_list_clear
dyn_list_clear(list) == [list EXCEPT !.size = 0]

\* dyn_list_get
dyn_list_get(list, index) ==
  IF index >= list.size THEN NULL ELSE Ptr(list.data[index + 1])

\* dyn_list_set
dyn_list_set(list, index, data) ==
  IF index >= list.size THEN list
  ELSE [list EXCEPT !.data[index + 1] = data]

(***************************************************************************)
(* The interpreter's stack primitives (interpreter.c).  A machine record m *)
(* carries the value stack through the pushes and pops of one dispatch:    *)
(* m.st is "ok" until a primitive calls exit(1), m.val is the value the    *)
(* last pop or peek returned.  The arrays are static storage: an entry     *)
(* never written reads as the zero Value, which is Null.                   *)
(***************************************************************************)
StackAt(stk, i) == IF i + 1 <= Len(stk) THEN stk[i + 1] ELSE value_new_null

StackPut(stk, i, v) ==
  [k \in 1..(IF i + 1 > Len(stk) THEN i + 1 ELSE Len(stk)) |->
     IF k = i + 1 THEN v ELSE StackAt(stk, k - 1)]

Machine == [stack |-> stack, sp |-> sp, st |-> "ok", val |-> value_new_null]

\* interpreter.c pop_stack
pop_stack(m) ==
  IF m.st # "ok" THEN m
  ELSE IF m.sp <= 0 THEN [m EXCEPT !.st = "fatal"]
  ELSE [m EXCEPT !.sp = m.sp - 1, !.val = StackAt(m.stack, m.sp - 1)]

\* a push_stack that refuses the last entry of the array
push_stack_early(m, v) ==
  IF m.st # "ok" THEN m
  ELSE IF m.sp >= STACK_SIZE - 1 THEN [m EXCEPT !.st = "fatal"]
  ELSE [m EXCEPT !.stack = StackPut(m.stack, m.sp, v), !.sp = m.sp + 1]

\* a push_stack without the overflow test
push_stack_unchecked(m, v) ==
  IF m.st # "ok" THEN m
  ELSE [m EXCEPT !.stack = StackPut(m.stack, m.sp, v), !.sp = m.sp + 1]

\* interpreter.c push_stack
push_stack(m, v) ==
  IF m.st # "ok" THEN m
  ELSE IF m.sp = STACK_SIZE THEN [m EXCEPT !.st = "fatal"]
  ELSE [m EXCEPT !.stack = StackPut(m.stack, m.sp, v), !.sp = m.sp + 1]

\* interpreter.c peek_stack
peek_stack(m, depth) ==
  IF m.st # "ok" THEN m
  ELSE IF m.sp < depth + 1 THEN [m EXCEPT !.st = "fatal"]
  ELSE [m EXCEPT !.val = StackAt(m.stack, m.sp - depth - 1)]

(***************************************************************************)
(* The dispatch loop of interpret (interpreter.c).                         *)
(***************************************************************************)
frame == frames[fp]
Block == objects[frame.function]
Size == Len(Block.opcodes)
\* the byte at offset i of the running block
ByteAt(i) == Block.opcodes[i + 1]
Running == pc = "run" /\ frame.ip < Size
CurOp == ByteAt(frame.ip)
Dispatch(op) == Running /\ CurOp = op

\* the bookkeeping of one dispatch: the new stack, the new ip, the outcome
Observe(op, newsp) ==
  effects' = effects \cup {<<op, newsp - sp>>}

\* an opcode that only moves values and then sets ip
Finish(op, m, newip) ==
  /\ stack' = m.stack
  /\ sp' = m.sp
  /\ pc' = IF m.st = "ok" THEN "run" ELSE m.st
  /\ frames' = IF m.st = "ok" THEN [frames EXCEPT ![fp].ip = newip] ELSE frames
  /\ IF m.st = "ok" THEN Observe(op, m.sp) ELSE UNCHANGED effects

\* exit(1) or a crash in the middle of a dispatch
Stop(how) ==
  /\ pc' = how
  /\ UNCHANGED <<stack, sp, frames, effects>>

Rest == UNCHANGED <<dynList, elems, hashTable, lexer, token, src, parser,
                    objects, heap, fp, globals, result, out>>

\* the operand bytes of the opcode at ip are inside the block
HasOperands(n) == frame.ip + n < Size

\* OP_NOP
OpNop ==
  /\ Dispatch(OP_NOP)
  /\ Finish(OP_NOP, Machine, frame.ip + 1)
  /\ Rest

\* OP_POP
OpPop ==
  /\ Dispatch(OP_POP)
  /\ Finish(OP_POP, pop_stack(Machine), frame.ip + 1)
  /\ Rest

\* OP_DUPE
OpDupe ==
  /\ Dispatch(OP_DUPE)
  /\ LET m1 == peek_stack(Machine, 0)
     IN Finish(OP_DUPE, push_stack(m1, m1.val), frame.ip + 1)
  /\ Rest

\* OP_SWAP
OpSwap ==
  /\ Dispatch(OP_SWAP)
  /\ LET m1 == pop_stack(Machine)
         m2 == pop_stack(m1)
     IN Finish(OP_SWAP, push_stack(push_stack(m2, m1.val), m2.val),
               frame.ip + 1)
  /\ Rest

\* OP_EXIT: interpret returns the popped number
OpExit ==
  /\ Dispatch(OP_EXIT)
  /\ LET m1 == pop_stack(Machine)
     IN /\ stack' = m1.stack
        /\ sp' = m1.sp
        /\ pc' = IF m1.st = "ok" THEN "done" ELSE m1.st
        /\ result' = IF m1.st = "ok" THEN m1.val.n ELSE result
        /\ IF m1.st = "ok" THEN Observe(OP_EXIT, m1.sp) ELSE UNCHANGED effects
  /\ UNCHANGED <<dynList, elems, hashTable, lexer, token, src, parser, objects,
                 heap, frames, fp, globals, out>>

\* OP_PRINT
OpPrint ==
  /\ Dispatch(OP_PRINT)
  /\ Len(out) < MaxOut
  /\ LET m1 == pop_stack(Machine)
     IN /\ Finish(OP_PRINT, m1, frame.ip + 1)
        /\ out' = IF m1.st = "ok" THEN Append(out, m1.val) ELSE out
  /\ UNCHANGED <<dynList, elems, hashTable, lexer, token, src, parser, objects,
                 heap, fp, globals, result>>

\* OP_NOT
OpNot ==
  /\ Dispatch(OP_NOT)
  /\ LET m1 == pop_stack(Machine)
     IN Finish(OP_NOT, push_stack(m1, value_new_boolean(~value_is_truthy(m1.val))),
               frame.ip + 1)
  /\ Rest

\* negate
negate(m) ==
  LET m1 == pop_stack(m)
  IN IF m1.st # "ok" THEN m1
     ELSE IF m1.val.t = "num" THEN push_stack(m1, value_new_number(0 - m1.val.n))
     ELSE [m1 EXCEPT !.st = "fatal"]

\* OP_NEGATE
OpNegate ==
  /\ Dispatch(OP_NEGATE)
  /\ Finish(OP_NEGATE, negate(Machine), frame.ip + 1)
  /\ Rest

\* the quotient a / b of two Numbers (whole numbers in this model)
Quotient(a, b) ==
  IF (a >= 0) = (b > 0) THEN (IF a >= 0 THEN a ELSE 0 - a) \div (IF b >= 0 THEN b ELSE 0 - b)
  ELSE 0 - ((IF a >= 0 THEN a ELSE 0 - a) \div (IF b >= 0 THEN b ELSE 0 - b))

\* a binary whose EQ and NEQ demand two Numbers, as the comparisons do
binary_strict_equality(m, op) ==
  LET mb == pop_stack(m)
      ma == pop_stack(mb)
      b == mb.val
      a == ma.val
  IN IF ma.st # "ok" THEN ma
     ELSE IF a.t # "num" \/ b.t # "num" \/ op \notin (OP_ADD..OP_NEQ) \ {OP_NOT}
     THEN [ma EXCEPT !.st = "fatal"]
     ELSE IF op = OP_DIV /\ b.n = 0 THEN [ma EXCEPT !.st = "fatal"]
     ELSE push_stack(ma,
            CASE op = OP_ADD -> value_new_number(a.n + b.n)
              [] op = OP_SUB -> value_new_number(a.n - b.n)
              [] op = OP_MUL -> value_new_number(a.n * b.n)
              [] op = OP_DIV -> value_new_number(Quotient(a.n, b.n))
              [] op = OP_LT -> value_new_boolean(a.n < b.n)
              [] op = OP_LTE -> value_new_boolean(a.n <= b.n)
              [] op = OP_GT -> value_new_boolean(a.n > b.n)
              [] op = OP_GTE -> value_new_boolean(a.n >= b.n)
              [] op = OP_EQ -> value_new_boolean(a.n = b.n)
              [] op = OP_NEQ -> value_new_boolean(a.n # b.n))

\* a binary without the test for a zero divisor: the quotient by 0 is 0
binary_unguarded_division(m, op) ==
  LET mb == pop_stack(m)
      ma == pop_stack(mb)
      b == mb.val
      a == ma.val
      nums == a.t = "num" /\ b.t = "num"
  IN IF ma.st # "ok" THEN ma
     ELSE IF op = OP_EQ
     THEN push_stack(ma, value_new_boolean(nums /\ a.n = b.n))
     ELSE IF op = OP_NEQ
     THEN push_stack(ma, value_new_boolean(~nums \/ a.n # b.n))
     ELSE IF ~nums \/ op \notin (OP_ADD..OP_GTE) \ {OP_NOT}
     THEN [ma EXCEPT !.st = "fatal"]
     ELSE push_stack(ma,
            CASE op = OP_ADD -> value_new_number(a.n + b.n)
              [] op = OP_SUB -> value_new_number(a.n - b.n)
              [] op = OP_MUL -> value_new_number(a.n * b.n)
              [] op = OP_DIV -> value_new_number(IF b.n = 0 THEN 0
                                                 ELSE Quotient(a.n, b.n))
              [] op = OP_LT -> value_new_boolean(a.n < b.n)
              [] op = OP_LTE -> value_new_boolean(a.n <= b.n)
              [] op = OP_GT -> value_new_boolean(a.n > b.n)
              [] op = OP_GTE -> value_new_boolean(a.n >= b.n))

\* binary(op): pops b, then a
binary(m, op) ==
  LET mb == pop_stack(m)
      ma == pop_stack(mb)
      b == mb.val
      a == ma.val
      nums == a.t = "num" /\ b.t = "num"
      fatal == [ma EXCEPT !.st = "fatal"]
  IN IF ma.st # "ok" THEN ma
     ELSE CASE op = OP_ADD -> IF nums THEN push_stack(ma, value_new_number(a.n + b.n)) ELSE fatal
            [] op = OP_SUB -> IF nums THEN push_stack(ma, value_new_number(a.n - b.n)) ELSE fatal
            [] op = OP_MUL -> IF nums THEN push_stack(ma, value_new_number(a.n * b.n)) ELSE fatal
            [] op = OP_DIV -> IF nums /\ b.n # 0
                              THEN push_stack(ma, value_new_number(Quotient(a.n, b.n)))
                              ELSE fatal
            [] op = OP_LT -> IF nums THEN push_stack(ma, value_new_boolean(a.n < b.n)) ELSE fatal
            [] op = OP_LTE -> IF nums THEN push_stack(ma, value_new_boolean(a.n <= b.n)) ELSE fatal
            [] op = OP_GT -> IF nums THEN push_stack(ma, value_new_boolean(a.n > b.n)) ELSE fatal
            [] op = OP_GTE -> IF nums THEN push_stack(ma, value_new_boolean(a.n >= b.n)) ELSE fatal
            [] op = OP_EQ -> IF nums THEN push_stack(ma, value_new_boolean(a.n = b.n))
                             ELSE push_stack(ma, value_new_boolean(FALSE))
            [] op = OP_NEQ -> IF nums THEN push_stack(ma, value_new_boolean(a.n # b.n))
                              ELSE push_stack(ma, value_new_boolean(TRUE))
            [] OTHER -> fatal

BinaryOps == {OP_ADD, OP_SUB, OP_MUL, OP_DIV, OP_LT, OP_GT, OP_LTE, OP_GTE, OP_EQ, OP_NEQ}

\* OP_ADD .. OP_NEQ
OpBinary ==
  /\ Running
  /\ CurOp \in BinaryOps
  /\ Finish(CurOp, binary(Machine, CurOp), frame.ip + 1)
  /\ Rest

\* OP_CONSTANT
OpConstant ==
  /\ Dispatch(OP_CONSTANT)
  /\ IF HasOperands(1) /\ ByteAt(frame.ip + 1) < Len(Block.constants)
     THEN Finish(OP_CONSTANT,
                 push_stack(Machine, Block.constants[ByteAt(frame.ip + 1) + 1]),
                 frame.ip + 2)
     ELSE Stop("crash")
  /\ Rest

\* object.h IS_TYPE(val, P_OBJ_STRING)
IsString(v) ==
  v.t = "obj" /\ v.n \in DOMAIN objects /\ objects[v.n].type = "P_OBJ_STRING"

\* hash_table.c hash_table_set, as the mapping it maintains
hash_table_set(table, key, value) ==
  [k \in DOMAIN table \cup {key} |-> IF k = key THEN value ELSE table[k]]

\* OP_GLOBAL_DEFINE
OpGlobalDefine ==
  /\ Dispatch(OP_GLOBAL_DEFINE)
  /\ LET m1 == pop_stack(Machine)
     IN IF m1.st = "ok" /\ ~IsString(m1.val)
        THEN Stop("crash") /\ UNCHANGED globals
        ELSE /\ Finish(OP_GLOBAL_DEFINE, m1, frame.ip + 1)
             /\ globals' = IF m1.st = "ok"
                           THEN hash_table_set(globals, objects[m1.val.n].value,
                                               value_new_null)
                           ELSE globals
  /\ UNCHANGED <<dynList, elems, hashTable, lexer, token, src, parser, objects,
                 heap, fp, result, out>>

\* OP_GLOBAL_SET
OpGlobalSet ==
  /\ Dispatch(OP_GLOBAL_SET)
  /\ LET m1 == pop_stack(Machine)
         m2 == pop_stack(m1)
     IN IF m1.st = "ok" /\ ~IsString(m1.val)
        THEN Stop("crash") /\ UNCHANGED globals
        ELSE /\ Finish(OP_GLOBAL_SET, m2, frame.ip + 1)
             /\ globals' = IF m2.st = "ok"
                           THEN hash_table_set(globals, objects[m1.val.n].value,
                                               m2.val)
                           ELSE globals
  /\ UNCHANGED <<dynList, elems, hashTable, lexer, token, src, parser, objects,
                 heap, fp, result, out>>

\* OP_GLOBAL_GET: the result of hash_table_get is dereferenced unchecked
OpGlobalGet ==
  /\ Dispatch(OP_GLOBAL_GET)
  /\ LET m1 == pop_stack(Machine)
     IN IF m1.st # "ok" THEN Finish(OP_GLOBAL_GET, m1, frame.ip + 1)
        ELSE IF ~IsString(m1.val) \/ objects[m1.val.n].value \notin DOMAIN globals
        THEN Stop("crash")
        ELSE Finish(OP_GLOBAL_GET,
                    push_stack(m1, globals[objects[m1.val.n].value]),
                    frame.ip + 1)
  /\ Rest

\* OP_LOCAL_GET
OpLocalGet ==
  /\ Dispatch(OP_LOCAL_GET)
  /\ IF HasOperands(1) /\ frame.slots + ByteAt(frame.ip + 1) < STACK_SIZE
     THEN Finish(OP_LOCAL_GET,
                 push_stack(Machine,
                            StackAt(stack, frame.slots + ByteAt(frame.ip + 1))),
                 frame.ip + 2)
     ELSE Stop("crash")
  /\ Rest

\* a LOCAL_SET that drops every value above the slot instead of one
local_set_truncating(m, index) ==
  LET m1 == peek_stack(m, 0)
      m2 == [m1 EXCEPT !.stack = StackPut(m1.stack, frame.slots + index, m1.val)]
  IN IF m1.st # "ok" THEN m1
     ELSE IF m2.sp > frame.slots + index + 1
     THEN [m2 EXCEPT !.sp = frame.slots + index + 1]
     ELSE m2

\* a LOCAL_SET that counts the slot from the bottom of the stack instead of
\* from the base of the frame
local_set_absolute(m, index) ==
  LET m1 == peek_stack(m, 0)
      m2 == [m1 EXCEPT !.stack = StackPut(m1.stack, index, m1.val)]
  IN IF m1.st # "ok" THEN m1
     ELSE IF m2.sp > index + 1 THEN pop_stack(m2)
     ELSE m2

\* OP_LOCAL_SET: the slot takes the top value, which is popped only when it
\* lies above the slot
local_set(m, index) ==
  LET m1 == peek_stack(m, 0)
      m2 == [m1 EXCEPT !.stack = StackPut(m1.stack, frame.slots + index, m1.val)]
  IN IF m1.st # "ok" THEN m1
     ELSE IF m2.sp > frame.slots + index + 1 THEN pop_stack(m2)
     ELSE m2

OpLocalSet ==
  /\ Dispatch(OP_LOCAL_SET)
  /\ IF HasOperands(1) /\ frame.slots + ByteAt(frame.ip + 1) < STACK_SIZE
     THEN Finish(OP_LOCAL_SET, local_set(Machine, ByteAt(frame.ip + 1)),
                 frame.ip + 2)
     ELSE Stop("crash")
  /\ Rest

\* uint16_t offset = (high << 8) | low, read from the two bytes after ip
Offset16 == ByteAt(frame.ip + 1) * 256 + ByteAt(frame.ip + 2)

\* condition.data.boolean: the Bool member of the union, whatever the tag.
\* Null is stored with all-zero data; for a Number or an Obj the byte read
\* depends on the representation.
DataBoolean(v) ==
  CASE v.t = "bool" -> {v.n = 1}
    [] v.t = "null" -> {FALSE}
    [] OTHER -> {TRUE, FALSE}

\* a jump measured from the byte after the two operand bytes
JumpForwardAfter == frame.ip + 3 + Offset16

\* the ip after a jump opcode: ip stands on the second operand byte when the
\* offset is applied
JumpForward == frame.ip + 2 + Offset16

\* a conditional jump that is not taken: frame->ip++ after the operands
JumpNot == frame.ip + 3

\* frame->ip -= offset in a size_t
JumpBackward ==
  IF frame.ip + 2 - Offset16 >= 0 THEN frame.ip + 2 - Offset16
  ELSE frame.ip + 2 - Offset16 + SIZE_MAX1

\* OP_CJUMPF
OpCJumpF ==
  /\ Dispatch(OP_CJUMPF)
  /\ LET m1 == pop_stack(Machine)
     IN IF m1.st # "ok" THEN Finish(OP_CJUMPF, m1, frame.ip)
        ELSE IF ~HasOperands(2) THEN Stop("crash")
        ELSE \E c \in DataBoolean(m1.val) :
               Finish(OP_CJUMPF, m1, IF c = FALSE THEN JumpForward ELSE JumpNot)
  /\ Rest

\* OP_CJUMPT
OpCJumpT ==
  /\ Dispatch(OP_CJUMPT)
  /\ LET m1 == pop_stack(Machine)
     IN IF m1.st # "ok" THEN Finish(OP_CJUMPT, m1, frame.ip)
        ELSE IF ~HasOperands(2) THEN Stop("crash")
        ELSE \E c \in DataBoolean(m1.val) :
               Finish(OP_CJUMPT, m1, IF c = TRUE THEN JumpForward ELSE JumpNot)
  /\ Rest

\* OP_JUMP
OpJump ==
  /\ Dispatch(OP_JUMP)
  /\ IF HasOperands(2) THEN Finish(OP_JUMP, Machine, JumpForward)
     ELSE Stop("crash")
  /\ Rest

\* OP_JUMP_BACK
OpJumpBack ==
  /\ Dispatch(OP_JUMP_BACK)
  /\ IF HasOperands(2) THEN Finish(OP_JUMP_BACK, Machine, JumpBackward)
     ELSE Stop("crash")
  /\ Rest

\* the values clock() may return
ClockValues == {0, 7}

\* standard_lib.c p_abs, p_wln, p_clock: the values a builtin may return for
\* its first argument; the empty set when it calls exit(1)
BuiltinResults(fn, arg) ==
  CASE fn = "p_abs" -> IF arg.t = "num"
                       THEN {value_new_number(IF arg.n < 0 THEN 0 - arg.n ELSE arg.n)}
                       ELSE {}
    [] fn = "p_wln" -> {value_new_null}
    [] fn = "p_clock" -> {value_new_number(c) : c \in ClockValues}
    [] OTHER -> {}

RECURSIVE PopN(_, _)
\* n calls of pop_stack
PopN(m, n) == IF n = 0 THEN m ELSE PopN(pop_stack(m), n - 1)

\* a call that leaves the caller's ip on the CALL opcode
CallFunction_without_resume(callable, arg_count) ==
  IF arg_count # objects[callable.n].arity \/ fp = MAX_FRAMES
  THEN Stop("fatal") /\ UNCHANGED <<fp, out>>
  ELSE /\ frames' = Append(frames,
                           [ip |-> 0, function |-> callable.n,
                            slots |-> sp - arg_count, slotCount |-> arg_count])
       /\ fp' = fp + 1
       /\ pc' = "run"
       /\ Observe(OP_CALL, sp)
       /\ UNCHANGED <<stack, sp, out>>

\* a call that pushes the frame whatever the number of arguments
CallFunction_any_arity(callable, arg_count) ==
  IF fp = MAX_FRAMES
  THEN Stop("fatal") /\ UNCHANGED <<fp, out>>
  ELSE /\ frames' = Append([frames EXCEPT ![fp].ip = frame.ip + 2],
                           [ip |-> 0, function |-> callable.n,
                            slots |-> sp - arg_count, slotCount |-> arg_count])
       /\ fp' = fp + 1
       /\ pc' = "run"
       /\ Observe(OP_CALL, sp)
       /\ UNCHANGED <<stack, sp, out>>

\* interpreter.c push_frame / call_object, case P_OBJ_FUNCTION
CallFunction(callable, arg_count) ==
  IF arg_count # objects[callable.n].arity \/ fp = MAX_FRAMES
  THEN Stop("fatal") /\ UNCHANGED <<fp, out>>
  ELSE /\ frames' = Append([frames EXCEPT ![fp].ip = frame.ip + 2],
                           [ip |-> 0, function |-> callable.n,
                            slots |-> sp - arg_count, slotCount |-> arg_count])
       /\ fp' = fp + 1
       /\ pc' = "run"
       /\ Observe(OP_CALL, sp)
       /\ UNCHANGED <<stack, sp, out>>

\* call_object, case P_OBJ_BUILTIN
CallBuiltin(callable, arg_count) ==
  LET fn == objects[callable.n].value
      arg == StackAt(stack, sp - arg_count)
  IN IF arg_count # objects[callable.n].arity \/ BuiltinResults(fn, arg) = {}
     THEN Stop("fatal") /\ UNCHANGED <<fp, out>>
     ELSE \E r \in BuiltinResults(fn, arg) :
            /\ Finish(OP_CALL, push_stack(PopN(Machine, arg_count + 1), r),
                      frame.ip + 2)
            /\ out' = IF fn = "p_wln" THEN Append(out, arg) ELSE out
            /\ UNCHANGED fp

\* the characters of the C strings that name fields and methods
Characters(text) ==
  CASE text = "x" -> <<"x">>
    [] text = "y" -> <<"y">>
    [] text = "z" -> <<"z">>
    [] text = "size" -> <<"s", "i", "z", "e">>
    [] text = "add" -> <<"a", "d", "d">>

\* call_object, case P_OBJ_STRUCT_TEMPLATE, first loop: fields[index] is the
\* key of the last entry of the template whose value is the Number index;
\* NULL stands for an element of the array that the loop never wrote
FieldAt(T, index) ==
  LET hits == {i \in 1..T.capacity :
                 /\ T.entries[i].key # NULL
                 /\ T.entries[i].value # NULL
                 /\ T.entries[i].value[1].t = "num"
                 /\ T.entries[i].value[1].n = index}
  IN IF hits = {} THEN NULL
     ELSE T.entries[CHOOSE i \in hits : \A j \in hits : j <= i].key

RECURSIVE StructFill(_, _, _, _)
\* the second loop: for i from count - 1 down to 0, pop a value and set the
\* field fields[i] of the instance to it
StructFill(m, fields, T, i) ==
  IF i < 0 THEN [m |-> m, fields |-> fields]
  ELSE LET m1 == pop_stack(m)
       IN IF m1.st # "ok" THEN [m |-> m1, fields |-> fields]
          ELSE StructFill(m1,
                          HashTableSet(fields, FieldAt(T, i)[1], m1.val).table,
                          T, i - 1)

\* call_object, case P_OBJ_STRUCT_TEMPLATE.  Each field name is copied by
\* strcpy into malloc(strlen(key)) bytes: the terminating NUL is written one
\* byte past the allocation, which is undefined behaviour; the call goes on,
\* or the process is stopped (by the allocator whose bookkeeping the byte
\* hit, or by an instrumented build).  A field whose ordinal no entry of the
\* template has leaves fields[i] uninitialized, and the strdup of it reads a
\* wild pointer
CallStruct(callable, arg_count) ==
  LET T == objects[callable.n].fields
      id == Len(objects) + 1
      filled == StructFill(Machine, PStructInstance(callable.n).fields, T,
                           T.count - 1)
      m == push_stack(pop_stack(filled.m), value_new_object(id))
  IN IF arg_count # T.count
     THEN Stop("fatal") /\ UNCHANGED <<fp, out, objects, heap>>
     ELSE IF \E i \in 0..(T.count - 1) : FieldAt(T, i) = NULL
     THEN Stop("crash") /\ UNCHANGED <<fp, out, objects, heap>>
     ELSE \/ /\ Finish(OP_CALL, m, frame.ip + 2)
             /\ objects' = Append(objects,
                                  [PStructInstance(callable.n) EXCEPT
                                     !.fields = filled.fields])
             /\ heap' = <<id>> \o heap
             /\ UNCHANGED <<fp, out>>
          \/ /\ T.count > 0
             /\ Stop("crash")
             /\ UNCHANGED <<fp, out, objects, heap>>

\* OP_CALL
OpCall ==
  /\ Dispatch(OP_CALL)
  /\ IF ~HasOperands(1)
     THEN Stop("crash") /\ UNCHANGED <<fp, out, objects, heap>>
     ELSE LET arg_count == ByteAt(frame.ip + 1)
              m1 == peek_stack(Machine, arg_count)
              callable == m1.val
          IN IF m1.st # "ok" \/ callable.t # "obj"
             THEN Stop("fatal") /\ UNCHANGED <<fp, out, objects, heap>>
             ELSE CASE objects[callable.n].type = "P_OBJ_FUNCTION" ->
                         /\ CallFunction(callable, arg_count)
                         /\ UNCHANGED <<objects, heap>>
                    [] objects[callable.n].type = "P_OBJ_BUILTIN" ->
                         /\ objects[callable.n].value = "p_wln" => Len(out) < MaxOut
                         /\ CallBuiltin(callable, arg_count)
                         /\ UNCHANGED <<objects, heap>>
                    [] objects[callable.n].type = "P_OBJ_STRUCT_TEMPLATE" ->
                         CallStruct(callable, arg_count)
                    [] OTHER ->
                         Stop("fatal") /\ UNCHANGED <<fp, out, objects, heap>>
  /\ UNCHANGED <<dynList, elems, hashTable, lexer, token, src, parser, globals,
                 result>>

\* OP_RETURN: the return value is the top of the stack when the number of
\* values in the frame differs from slotCount (the difference is compared as
\* a size_t, so that a negative one counts as positive), Null otherwise; the
\* frame is popped; in
\* the outermost frame interpret returns INTERPRET_OK, otherwise slotCount + 1
\* values are popped and the return value is pushed
OpReturn ==
  /\ Dispatch(OP_RETURN)
  /\ LET extra == sp - frame.slots - frame.slotCount # 0
         m1 == IF extra THEN pop_stack(Machine) ELSE Machine
         res == IF extra THEN m1.val ELSE value_new_null
         m2 == push_stack(PopN(m1, frame.slotCount + 1), res)
     IN IF fp - 1 <= 0
        THEN /\ pc' = "done"
             /\ result' = 0
             /\ stack' = m1.stack
             /\ sp' = m1.sp
             /\ Observe(OP_RETURN, m1.sp)
        ELSE /\ pc' = IF m2.st = "ok" THEN "run" ELSE m2.st
             /\ stack' = m2.stack
             /\ sp' = m2.sp
             /\ IF m2.st = "ok" THEN Observe(OP_RETURN, m2.sp) ELSE UNCHANGED effects
             /\ UNCHANGED result
  /\ fp' = fp - 1
  /\ frames' = SubSeq(frames, 1, fp - 1)
  /\ UNCHANGED <<dynList, elems, hashTable, lexer, token, src, parser, objects,
                 heap, globals, out>>

\* field_get: pops the field name and the receiver, pushes the field of a
\* struct instance or the method of a list
OpFieldGet ==
  /\ Dispatch(OP_FIELD_GET)
  /\ LET m1 == pop_stack(Machine)
         field == m1.val
         m2 == pop_stack(m1)
         object == m2.val
     IN IF m2.st # "ok" \/ object.t # "obj" \/ ~IsString(field)
        THEN Stop("fatal")
        ELSE LET ftext == Characters(objects[field.n].value)
             IN CASE objects[object.n].type = "P_OBJ_STRUCT_INSTANCE" ->
                       LET value == hash_table_get(objects[object.n].fields,
                                                   ftext)
                       IN IF value = NULL THEN Stop("fatal")
                          ELSE Finish(OP_FIELD_GET, push_stack(m2, value[1]),
                                      frame.ip + 1)
                  [] objects[object.n].type = "P_OBJ_LIST" ->
                       LET method == hash_table_get(objects[object.n].methods,
                                                    ftext)
                       IN IF method = NULL THEN Stop("fatal")
                          ELSE Finish(OP_FIELD_GET, push_stack(m2, method[1]),
                                      frame.ip + 1)
                  [] OTHER -> Stop("fatal")
  /\ Rest

\* field_set: pops the field name, the value and the receiver, and sets the
\* field of the struct instance
OpFieldSet ==
  /\ Dispatch(OP_FIELD_SET)
  /\ LET m1 == pop_stack(Machine)
         field == m1.val
         m2 == pop_stack(m1)
         value == m2.val
         m3 == pop_stack(m2)
         object == m3.val
     IN IF \/ m3.st # "ok"
           \/ object.t # "obj"
           \/ objects[object.n].type # "P_OBJ_STRUCT_INSTANCE"
           \/ ~IsString(field)
        THEN Stop("fatal") /\ UNCHANGED objects
        ELSE /\ Finish(OP_FIELD_SET, m3, frame.ip + 1)
             /\ objects' =
                  [objects EXCEPT ![object.n].fields =
                     HashTableSet(@, Characters(objects[field.n].value),
                                  value).table]
  /\ UNCHANGED <<dynList, elems, hashTable, lexer, token, src, parser, heap,
                 fp, globals, result, out>>

\* data.number of a Value.  The union member of a Null, a Bool or an Obj
\* read as a double is zero or a subnormal, which every use in list()
\* takes to 0
DataNumber(v) == IF v.t = "num" THEN v.n ELSE 0

\* object.c p_object_list_new: the list, then for each method its name and
\* its builtin, whose parent is the list; the id of the list is first.
\* count, capacity and values are the fields list() and list_index() use
p_object_list_new(first) ==
  <<[type |-> "P_OBJ_LIST",
     methods |->
       HashTableSet(HashTableSet(hash_table_init, Characters("size"),
                                 value_new_object(first + 2)).table,
                    Characters("add"), value_new_object(first + 4)).table,
     count |-> 0, capacity |-> 8, values |-> <<>>],
    PString("size"),
    ("parent" :> first) @@ PBuiltin(first + 1, "p_list_size", 0),
    PString("add"),
    ("parent" :> first) @@ PBuiltin(first + 3, "p_list_add", 1)>>

RECURSIVE ListCapacity(_, _)
\* list(): while (list->capacity < count) capacity *= LIST_GROW_FACTOR
ListCapacity(capacity, count) ==
  IF capacity < count THEN ListCapacity(capacity * 2, count) ELSE capacity

RECURSIVE ListFill(_, _)
\* list(): for i from count - 1 down to 0, values[i] = pop_stack()
ListFill(m, i) ==
  IF i < 0 THEN [m |-> m, values |-> <<>>]
  ELSE LET m1 == pop_stack(m)
           below == ListFill(m1, i - 1)
       IN [m |-> below.m, values |-> Append(below.values, m1.val)]

\* list: pops the count and that many values, pushes a new list of them
OpList ==
  /\ Dispatch(OP_LIST)
  /\ LET m1 == pop_stack(Machine)
         count == DataNumber(m1.val)
         first == Len(objects) + 1
         filled == ListFill(m1, count - 1)
         m2 == push_stack(filled.m, value_new_object(first))
         new == p_object_list_new(first)
     IN IF m2.st # "ok" THEN Stop("fatal") /\ UNCHANGED <<objects, heap>>
        ELSE /\ Finish(OP_LIST, m2, frame.ip + 1)
             /\ objects' =
                  objects \o [new EXCEPT
                                ![1].capacity = ListCapacity(@, count),
                                ![1].values = filled.values,
                                ![1].count = count]
             /\ heap' = <<first + 4, first + 3, first + 2, first + 1, first>>
                        \o heap
  /\ UNCHANGED <<dynList, elems, hashTable, lexer, token, src, parser, fp,
                 globals, result, out>>

\* an INDEX that counts from the last element
OpIndex_from_the_end ==
  /\ Dispatch(OP_INDEX)
  /\ LET m1 == pop_stack(Machine)
         index == m1.val
         m2 == pop_stack(m1)
         list == m2.val
     IN IF \/ m2.st # "ok"
           \/ list.t # "obj"
           \/ objects[list.n].type # "P_OBJ_LIST"
           \/ index.t # "num"
           \/ index.n < 0
           \/ index.n >= objects[list.n].count
        THEN Stop("fatal")
        ELSE Finish(OP_INDEX,
                    push_stack(m2, objects[list.n].values[
                                     objects[list.n].count - index.n]),
                    frame.ip + 1)
  /\ Rest

\* list_index: pops the index and the list, pushes the element
OpIndex ==
  /\ Dispatch(OP_INDEX)
  /\ LET m1 == pop_stack(Machine)
         index == m1.val
         m2 == pop_stack(m1)
         list == m2.val
     IN IF \/ m2.st # "ok"
           \/ list.t # "obj"
           \/ objects[list.n].type # "P_OBJ_LIST"
           \/ index.t # "num"
           \/ index.n < 0
           \/ index.n >= objects[list.n].count
        THEN Stop("fatal")
        ELSE Finish(OP_INDEX,
                    push_stack(m2, objects[list.n].values[index.n + 1]),
                    frame.ip + 1)
  /\ Rest

\* the default case of the dispatch switch
OpUnknown ==
  /\ Running
  /\ CurOp > OP_INDEX
  /\ Stop("fatal")
  /\ Rest

\* the loop condition frame->ip < opcodes->size fails: INTERPRET_OK
InterpretEnd ==
  /\ pc = "run"
  /\ frame.ip >= Size
  /\ pc' = "done"
  /\ result' = 0
  /\ UNCHANGED <<dynList, elems, hashTable, lexer, token, src, parser, objects,
                 heap, stack, sp, frames, fp, globals, out, effects>>

(***************************************************************************)
(* The lexer (lexer.c).  A character is a string of length one; NUL is the *)
(* terminator of the source string and NL the newline.  A lexer record L   *)
(* is struct Lexer; the functions return [lexer, token, st], st being "ok" *)
(* or "fatal" after exit(1).                                               *)
(***************************************************************************)
NUL == "NUL"
NL == "NL"

Letters ==
  {"a", "b", "c", "d", "e", "f", "g", "h", "i", "j", "k", "l", "m", "n", "o",
   "p", "q", "r", "s", "t", "u", "v", "w", "x", "y", "z"}
Digits == {"0", "1", "2", "3", "4", "5", "6", "7", "8", "9"}

\* ctype.h, on the characters of the inputs
isdigit(c) == c \in Digits
isalpha(c) == c \in Letters
isalnum(c) == isalpha(c) \/ isdigit(c)

\* lexer_init
lexer_init(input) == [input |-> input, line |-> 1, index |-> 0]

\* the Token before the first call
NoLexeme == [type |-> "TOKEN_NONE", start |-> 0, length |-> 0, line |-> 0]

\* peek
peek(L) == L.input[L.index + 1]

\* peek_next
peek_next(L) == IF peek(L) = NUL THEN NUL ELSE L.input[L.index + 2]

\* lexer.index++, lexer.index += n
Skip(L, n) == [L EXCEPT !.index = @ + n]

RECURSIVE skip_whitespace(_)
\* skip_whitespace
skip_whitespace(L) ==
  IF peek(L) = NL THEN skip_whitespace([Skip(L, 1) EXCEPT !.line = @ + 1])
  ELSE IF peek(L) \in {" ", "\r", "\t"} THEN skip_whitespace(Skip(L, 1))
  ELSE L

\* make_token: the token and the lexer as the function leaves it
make_token(L, type, start, length) ==
  [lexer |-> L, st |-> "ok",
   token |-> [type |-> type, start |-> start, length |-> length,
              line |-> L.line]]

\* exit(1) after a diagnostic
LexerExit(L) == [lexer |-> L, st |-> "fatal", token |-> NoLexeme]

RECURSIVE SkipDigits(_)
\* while (isdigit(peek())) lexer.index++
SkipDigits(L) == IF isdigit(peek(L)) THEN SkipDigits(Skip(L, 1)) ELSE L

\* number, after the digits before a decimal point
number_fraction(L1, start) ==
  IF peek(L1) = "." /\ isdigit(peek_next(L1))
  THEN make_token(SkipDigits(Skip(L1, 1)), "TOKEN_LITERAL_FLOATING", start,
                  SkipDigits(Skip(L1, 1)).index - start)
  ELSE make_token(L1, "TOKEN_LITERAL_INTEGER", start, L1.index - start)

\* number
number(L) == number_fraction(SkipDigits(L), L.index)

RECURSIVE SkipAlnum(_)
\* while (isalnum(peek())) lexer.index++
SkipAlnum(L) == IF isalnum(peek(L)) THEN SkipAlnum(Skip(L, 1)) ELSE L

\* strncmp(schar, word, Len(word)) == 0: the characters from start on are
\* those of word; the comparison ends at a NUL
strncmp0(input, start, word) ==
  /\ start + Len(word) <= Len(input)
  /\ SubSeq(input, start + 1, start + Len(word)) = word

\* the reserved words of identifier, in the order of its comparisons
Keywords ==
  <<[word |-> <<"b", "o", "o", "l">>, type |-> "TOKEN_BOOL"],
    [word |-> <<"f", "a", "l", "s", "e">>, type |-> "TOKEN_FALSE"],
    [word |-> <<"i", "3", "2">>, type |-> "TOKEN_I32"],
    [word |-> <<"i", "f">>, type |-> "TOKEN_IF"],
    [word |-> <<"n", "u", "l", "l">>, type |-> "TOKEN_NULL"],
    [word |-> <<"p", "r", "i", "n", "t">>, type |-> "TOKEN_PRINT"],
    [word |-> <<"s", "t", "r">>, type |-> "TOKEN_STR"],
    [word |-> <<"t", "r", "u", "e">>, type |-> "TOKEN_TRUE"],
    [word |-> <<"w", "h", "i", "l", "e">>, type |-> "TOKEN_WHILE"]>>

\* identifier, the chain of comparisons: the first reserved word with which
\* the characters at start begin, TOKEN_IDENTIFIER when there is none
identifier_type(input, start) ==
  LET hits == {k \in 1..Len(Keywords) :
                 strncmp0(input, start, Keywords[k].word)}
  IN IF hits = {} THEN "TOKEN_IDENTIFIER"
     ELSE Keywords[CHOOSE k \in hits : \A j \in hits : k <= j].type

\* identifier, after the loop
identifier_token(L1, start) ==
  make_token(L1, identifier_type(L1.input, start), start, L1.index - start)

\* identifier
identifier(L) == identifier_token(SkipAlnum(Skip(L, 1)), L.index)

RECURSIVE string_loop(_, _)
\* string, the loop: to the closing quote or to the NUL
string_loop(L, start) ==
  IF peek(L) = NUL THEN LexerExit(L)
  ELSE IF peek(L) = NL
  THEN string_loop([Skip(L, 1) EXCEPT !.line = @ + 1], start)
  ELSE IF peek(L) = "\""
  THEN make_token(Skip(L, 1), "TOKEN_LITERAL_STRING", start,
                  L.index + 1 - start - 1)
  ELSE string_loop(Skip(L, 1), start)

\* string
string(L) == string_loop(Skip(L, 1), L.index + 1)

\* a token of one character, or of two when '=' follows
OneOrTwo(L, two, one) ==
  IF peek_next(L) = "=" THEN make_token(Skip(L, 2), two, L.index, 2)
  ELSE make_token(Skip(L, 1), one, L.index, 1)

\* a token of one character
One(L, type) == make_token(Skip(L, 1), type, L.index, 1)

\* && and ||: one character alone is unexpected
Twice(L, type) ==
  IF peek_next(L) = peek(L) THEN make_token(Skip(L, 2), type, L.index, 2)
  ELSE LexerExit(L)

RECURSIVE SkipLine(_)
\* while (peek() != '\0' && peek() != '\n') lexer.index++
SkipLine(L) == IF peek(L) \in {NUL, NL} THEN L ELSE SkipLine(Skip(L, 1))

RECURSIVE lexer_next_token(_), lexer_switch(_)
\* lexer_next_token, after skip_whitespace
lexer_switch(L) ==
  CASE isdigit(peek(L)) -> number(L)
    [] isalpha(peek(L)) -> identifier(L)
    [] peek(L) = "!" -> OneOrTwo(L, "TOKEN_NOT_EQUAL", "TOKEN_EXCLAMATION")
    [] peek(L) = "+" -> One(L, "TOKEN_PLUS")
    [] peek(L) = "-" -> One(L, "TOKEN_MINUS")
    [] peek(L) = "*" -> One(L, "TOKEN_STAR")
    [] peek(L) = "/" -> IF peek_next(L) = "/" THEN lexer_next_token(SkipLine(L))
                        ELSE One(L, "TOKEN_SLASH")
    [] peek(L) = "=" -> OneOrTwo(L, "TOKEN_EQUAL_EQUAL", "TOKEN_EQUAL")
    [] peek(L) = "(" -> One(L, "TOKEN_LPAREN")
    [] peek(L) = ")" -> One(L, "TOKEN_RPAREN")
    [] peek(L) = "{" -> One(L, "TOKEN_LBRACE")
    [] peek(L) = "}" -> One(L, "TOKEN_RBRACE")
    [] peek(L) = ";" -> One(L, "TOKEN_SEMICOLON")
    [] peek(L) = ">" -> OneOrTwo(L, "TOKEN_GREATER_EQUAL", "TOKEN_GREATER")
    [] peek(L) = "<" -> OneOrTwo(L, "TOKEN_LESS_EQUAL", "TOKEN_LESS")
    [] peek(L) = "\"" -> string(L)
    [] peek(L) = "&" -> Twice(L, "TOKEN_AND")
    [] peek(L) = "|" -> Twice(L, "TOKEN_OR")
    [] peek(L) = NUL -> One(L, "TOKEN_EOF")
    [] OTHER -> LexerExit(L)

\* lexer_next_token
lexer_next_token(L) == lexer_switch(skip_whitespace(L))

(***************************************************************************)
(* The compiler (parser.c).  A compiler record S carries struct Parser     *)
(* together with the objects it allocates through one parsing function:    *)
(*   pos        index in src of parser.current                             *)
(*   previous   parser.previous                                            *)
(*   function   parser.function (index in objects)                         *)
(*   globals    parser.globals                                             *)
(*   scope, locals, had_error                                              *)
(*   errors     the number of diagnostics parse_error has printed          *)
(*   objects, heap                                                         *)
(*   status     "ok", "crash" (a NULL handler was called) or "hang" (a     *)
(*              loop repeats without consuming a token)                    *)
(*   val        the Value the last parsing function returned               *)
(*   ret        the index the last helper returned                         *)
(* A token is [type, text, num]: num is the number a literal's digits      *)
(* denote.                                                                 *)
(***************************************************************************)
Tok(type, text) == [type |-> type, text |-> text, num |-> 0]
NoToken == Tok("TOKEN_NONE", "")

\* enum Precedence (parser.h)
PREC_NONE == 0
PREC_ASSIGNMENT == 1
PREC_OR == 2
PREC_AND == 3
PREC_EQUALITY == 4
PREC_COMPARISON == 5
PREC_TERM == 6
PREC_FACTOR == 7
PREC_UNARY == 8
PREC_CALL == 9
PREC_PRIMARY == 10

\* rules[] (parser.c): the prefix handler of a token type
PrefixRule(type) ==
  CASE type \in {"TOKEN_LITERAL_INTEGER", "TOKEN_LITERAL_FLOATING",
                 "TOKEN_LITERAL_STRING", "TOKEN_FALSE", "TOKEN_NULL",
                 "TOKEN_TRUE"} -> "literal"
    [] type = "TOKEN_IDENTIFIER" -> "variable"
    [] type \in {"TOKEN_EXCLAMATION", "TOKEN_MINUS"} -> "unary"
    [] type = "TOKEN_LPAREN" -> "grouping"
    [] OTHER -> "NULL"

\* rules[]: the infix handler of a token type
InfixRule(type) ==
  CASE type \in {"TOKEN_PLUS", "TOKEN_MINUS", "TOKEN_STAR", "TOKEN_SLASH",
                 "TOKEN_GREATER", "TOKEN_LESS", "TOKEN_EQUAL_EQUAL",
                 "TOKEN_NOT_EQUAL", "TOKEN_GREATER_EQUAL",
                 "TOKEN_LESS_EQUAL"} -> "binary"
    [] type = "TOKEN_LPAREN" -> "call"
    [] type = "TOKEN_AND" -> "and"
    [] type = "TOKEN_OR" -> "or"
    [] OTHER -> "NULL"

\* rules[]: the infix precedence of a token type
rules_precedence(type) ==
  CASE type = "TOKEN_EXCLAMATION" -> PREC_UNARY
    [] type \in {"TOKEN_PLUS", "TOKEN_MINUS"} -> PREC_TERM
    [] type \in {"TOKEN_STAR", "TOKEN_SLASH"} -> PREC_FACTOR
    [] type = "TOKEN_EQUAL" -> PREC_ASSIGNMENT
    [] type = "TOKEN_LPAREN" -> PREC_CALL
    [] type \in {"TOKEN_GREATER", "TOKEN_LESS", "TOKEN_EQUAL_EQUAL",
                 "TOKEN_NOT_EQUAL", "TOKEN_GREATER_EQUAL",
                 "TOKEN_LESS_EQUAL"} -> PREC_COMPARISON
    [] type = "TOKEN_AND" -> PREC_AND
    [] type = "TOKEN_OR" -> PREC_OR
    [] OTHER -> PREC_NONE

\* value.c value_type_from_token_type
value_type_from_token_type(type) ==
  CASE type = "TOKEN_NULL" -> "null"
    [] type \in {"TOKEN_TRUE", "TOKEN_FALSE", "TOKEN_BOOL"} -> "bool"
    [] type \in {"TOKEN_LITERAL_INTEGER", "TOKEN_LITERAL_FLOATING"} -> "num"
    [] type \in {"TOKEN_LITERAL_STRING", "TOKEN_IDENTIFIER"} -> "obj"
    [] OTHER -> "null"

\* the token types parser.c tests for a declared type
TypeKeywords == {"TOKEN_I32", "TOKEN_F32", "TOKEN_BOOL", "TOKEN_STR"}

Cur(S) == src[S.pos]

\* advance
advance(S) ==
  IF Cur(S).type = "TOKEN_EOF" THEN S
  ELSE [S EXCEPT !.previous = Cur(S), !.pos = S.pos + 1]

\* check
check(S, type) == Cur(S).type = type

\* match: the state after match(type); whether it matched is check(S, type)
match(S, type) == IF check(S, type) THEN advance(S) ELSE S

\* a parse_error that prints its diagnostic and leaves had_error alone
parse_error_unflagged(S) == [S EXCEPT !.errors = @ + 1]

\* parse_error: the diagnostic is printed and had_error is set
parse_error(S) == [S EXCEPT !.had_error = TRUE, !.errors = @ + 1]

\* consume
consume(S, type) == IF check(S, type) THEN advance(S) ELSE parse_error(S)

\* object.c _p_object_new: the object is linked at the head of the heap list
p_object_new(S, obj) ==
  [S EXCEPT !.objects = Append(S.objects, obj),
            !.heap = <<Len(S.objects) + 1>> \o S.heap,
            !.ret = Len(S.objects) + 1]

\* block.c block_new_opcode
block_new_opcode(S, opcode) ==
  [S EXCEPT !.objects[S.function].opcodes = Append(@, opcode % 256)]

\* block.c block_new_opcodes
block_new_opcodes(S, opcodeA, opcodeB) ==
  block_new_opcode(block_new_opcode(S, opcodeA), opcodeB)

\* block.c block_new_opcodes_3
block_new_opcodes_3(S, opcodeA, opcodeB, opcodeC) ==
  block_new_opcode(block_new_opcodes(S, opcodeA, opcodeB), opcodeC)

\* block.c block_new_constant: returns (uint8_t)size - 1 as a uint8_t
block_new_constant(S, constant) ==
  [S EXCEPT !.objects[S.function].constants = Append(@, constant),
            !.ret = Len(S.objects[S.function].constants) % 256]

\* opcodes->size of the current block
CodeSize(S) == Len(S.objects[S.function].opcodes)

\* the two operand bytes at offset `at' take the high and low byte of v
PatchJump(S, at, v) ==
  [S EXCEPT !.objects[S.function].opcodes =
     [@ EXCEPT ![at + 1] = (v \div 256) % 256, ![at + 2] = v % 256]]

\* uint16_t size = jump < UINT16_MAX ? jump : UINT16_MAX
Saturate(jump) == IF jump < UINT16_MAX THEN jump ELSE UINT16_MAX

RECURSIVE synchronize(_)
\* synchronize
synchronize(S) ==
  IF Cur(S).type = "TOKEN_EOF" THEN S
  ELSE IF S.previous.type = "TOKEN_SEMICOLON" THEN S
  ELSE IF Cur(S).type \in {"TOKEN_PRINT", "TOKEN_I32", "TOKEN_F32", "TOKEN_STR",
                           "TOKEN_BOOL", "TOKEN_IF", "TOKEN_WHILE", "TOKEN_FOR",
                           "TOKEN_VOID", "TOKEN_RETURN", "TOKEN_SEMICOLON",
                           "TOKEN_STRUCT"} THEN S
  ELSE synchronize(advance(S))

RECURSIVE pop_locals(_)
\* pop_locals: one OP_POP for each local deeper than the current scope
pop_locals(S) ==
  IF Len(S.locals) = 0 THEN S
  ELSE IF S.locals[Len(S.locals)].depth <= S.scope THEN S
  ELSE pop_locals([block_new_opcode(S, OP_POP) EXCEPT
                     !.locals = SubSeq(S.locals, 1, Len(S.locals) - 1)])

\* get_local: the highest index whose name is the token's text, or -1
get_local(S, name) ==
  LET hits == {i \in 1..Len(S.locals) : S.locals[i].name.text = name.text}
  IN IF hits = {} THEN 0 - 1
     ELSE (CHOOSE i \in hits : \A j \in hits : j <= i) - 1

\* new_local
new_local(S, name, value) ==
  IF Len(S.locals) = UINT8_MAX THEN [parse_error(S) EXCEPT !.ret = 0 - 1]
  ELSE IF get_local(S, name) # 0 - 1 THEN [parse_error(S) EXCEPT !.ret = 0 - 1]
  ELSE [S EXCEPT !.locals = Append(S.locals,
                                   [name |-> name, depth |-> S.scope,
                                    value |-> value]),
                 !.ret = Len(S.locals)]

\* type_check: the test, without the message
type_check(S, a, b) ==
  IF a.t = "obj" /\ b.t = "obj"
  THEN a.n \in DOMAIN S.objects /\ b.n \in DOMAIN S.objects
       /\ S.objects[a.n].type = S.objects[b.n].type
  ELSE a.t = b.t

\* type_check_single: the test, without the message
type_check_single(a, type) == a.t = type

Null(S) == [S EXCEPT !.val = value_new_null]

RECURSIVE expression(_, _), expression_prefix(_, _, _), expression_infix(_, _, _),
          expression_end(_, _), Prefix(_, _, _), Infix(_, _, _, _),
          variable(_, _), variable_local(_, _, _), variable_local_set(_, _),
          variable_global(_, _, _), variable_global_set(_, _, _),
          literal(_, _), grouping(_, _), grouping_close(_), unary(_, _),
          unary_operand(_, _), and(_, _, _), and_rhs(_), and_patch(_, _),
          or(_, _, _), or_rhs(_), or_patch(_, _), binary_rule(_, _, _),
          binary_emit(_, _, _), call(_, _, _), call_function(_, _),
          call_function_end(_, _), CallArguments(_, _, _),
          call_argument(_, _, _, _)

\* a failure that ends the compiler (a crash or an endless loop) is carried
\* through every caller
Stopped(S) == S.status # "ok"

\* OP_CONSTANT with the index block_new_constant returned, then one opcode
ConstantThen(S, opcode) == block_new_opcodes_3(S, OP_CONSTANT, S.ret, opcode)

\* OP_CONSTANT with the index block_new_constant returned
Constant(S) == block_new_opcodes(S, OP_CONSTANT, S.ret)

\* variable, the assignment to a local after its right-hand side
variable_local_set(S1, index) ==
  IF Stopped(S1) THEN S1
  ELSE IF ~type_check(S1, S1.val, S1.locals[index + 1].value)
  THEN Null(parse_error(S1))
  ELSE block_new_opcodes([S1 EXCEPT !.locals[index + 1].value = S1.val],
                         OP_LOCAL_SET, index)

\* variable, the name found in the local table at index
variable_local(S, canAssign, index) ==
  IF canAssign /\ check(S, "TOKEN_EQUAL")
  THEN variable_local_set(expression(advance(S), PREC_ASSIGNMENT), index)
  ELSE [block_new_opcodes(S, OP_LOCAL_GET, index) EXCEPT
          !.val = S.locals[index + 1].value]

\* variable, the assignment to a global after its right-hand side
variable_global_set(S1, text, name) ==
  IF Stopped(S1) THEN S1
  ELSE IF ~type_check(S1, S1.val, S1.globals[text]) THEN Null(parse_error(S1))
  ELSE ConstantThen(block_new_constant(S1, value_new_object(name)),
                    OP_GLOBAL_SET)

\* variable, after the name string is allocated (S0.ret)
variable_global(S0, canAssign, text) ==
  IF text \notin DOMAIN S0.globals THEN Null(parse_error(S0))
  ELSE IF canAssign /\ check(S0, "TOKEN_EQUAL")
  THEN variable_global_set(expression(advance(S0), PREC_ASSIGNMENT), text,
                           S0.ret)
  ELSE [ConstantThen(block_new_constant(S0, value_new_object(S0.ret)),
                     OP_GLOBAL_GET) EXCEPT !.val = S0.globals[text]]

\* variable: a local when inside a scope and the name is in the local table,
\* a global otherwise
variable(S, canAssign) ==
  IF S.scope # 0 /\ get_local(S, S.previous) # 0 - 1
  THEN variable_local(S, canAssign, get_local(S, S.previous))
  ELSE variable_global(p_object_new(S, PString(S.previous.text)), canAssign,
                       S.previous.text)

\* literal: the constant of a literal token and OP_CONSTANT with its index
LiteralConstant(S, val) ==
  [Constant(block_new_constant(S, val)) EXCEPT !.val = val]

\* literal
literal(S, canAssign) ==
  CASE S.previous.type = "TOKEN_LITERAL_INTEGER" ->
         LiteralConstant(S, value_new_number(S.previous.num))
    [] S.previous.type = "TOKEN_LITERAL_FLOATING" ->
         LiteralConstant(S, [t |-> "f32", n |-> S.previous.num])
    [] S.previous.type = "TOKEN_LITERAL_STRING" ->
         LiteralConstant(p_object_new(S, PString(S.previous.text)),
                         value_new_object(Len(S.objects) + 1))
    [] S.previous.type = "TOKEN_NULL" -> LiteralConstant(S, value_new_null)
    [] S.previous.type = "TOKEN_TRUE" ->
         LiteralConstant(S, value_new_boolean(TRUE))
    [] S.previous.type = "TOKEN_FALSE" ->
         LiteralConstant(S, value_new_boolean(FALSE))
    [] S.previous.type = "TOKEN_IDENTIFIER" -> variable(S, canAssign)
    [] OTHER -> Null(parse_error(S))

\* grouping, after the inner expression
grouping_close(S1) ==
  IF Stopped(S1) THEN S1
  ELSE [consume(S1, "TOKEN_RPAREN") EXCEPT !.val = S1.val]

\* grouping
grouping(S, canAssign) == grouping_close(expression(S, PREC_ASSIGNMENT))

\* unary, after the operand
unary_operand(S1, prev) ==
  IF Stopped(S1) THEN S1
  ELSE CASE prev = "TOKEN_MINUS" ->
              IF S1.val.t = "num" THEN block_new_opcode(S1, OP_NEGATE)
              ELSE parse_error(S1)
         [] prev = "TOKEN_EXCLAMATION" ->
              [block_new_opcode(S1, OP_NOT) EXCEPT
                 !.val = value_new_boolean(~value_is_truthy(S1.val))]
         [] OTHER -> parse_error(S1)

\* unary
unary(S, canAssign) == unary_operand(expression(S, PREC_UNARY), S.previous.type)

\* a distance that leaves out the byte under the jump's last operand
JumpDistanceShort(start, end) == (end - start) % (UINT16_MAX + 1)

\* uint16_t dist = end - start + 1 in and / or
JumpDistance(start, end) == (end - start + 1) % (UINT16_MAX + 1)

\* and, after the right operand: the operand of CJUMPF takes the distance
and_patch(S2, start) ==
  IF Stopped(S2) THEN S2
  ELSE IF ~type_check_single(S2.val, "bool") THEN Null(parse_error(S2))
  ELSE PatchJump(S2, start - 2, JumpDistance(start, CodeSize(S2)))

\* and, the right operand: start is the size of the block after CJUMPF
and_rhs(S1) == and_patch(expression(S1, PREC_AND), CodeSize(S1))

\* and: CJUMPF over the right operand
and(S, lhs, canAssign) ==
  IF ~type_check_single(lhs, "bool") THEN Null(parse_error(S))
  ELSE and_rhs(block_new_opcodes_3(S, OP_CJUMPF, 0, 0))

\* or, after the right operand: the operand of CJUMPT takes the distance
or_patch(S2, start) ==
  IF Stopped(S2) THEN S2
  ELSE IF ~type_check_single(S2.val, "bool") THEN Null(parse_error(S2))
  ELSE PatchJump(S2, start - 2, JumpDistance(start, CodeSize(S2)))

\* or, the right operand: start is the size of the block after CJUMPT
or_rhs(S1) == or_patch(expression(S1, PREC_OR), CodeSize(S1))

\* or: DUPE, then CJUMPT over the right operand
or(S, lhs, canAssign) ==
  or_rhs(block_new_opcodes_3(block_new_opcode(S, OP_DUPE), OP_CJUMPT, 0, 0))

\* BINARY_OP_A: the opcodes of an infix operator
BINARY_OP_A(S, op) ==
  CASE op = "TOKEN_PLUS" -> block_new_opcode(S, OP_ADD)
    [] op = "TOKEN_MINUS" -> block_new_opcode(S, OP_SUB)
    [] op = "TOKEN_STAR" -> block_new_opcode(S, OP_MUL)
    [] op = "TOKEN_SLASH" -> block_new_opcode(S, OP_DIV)
    [] op = "TOKEN_GREATER" -> block_new_opcode(S, OP_GT)
    [] op = "TOKEN_LESS" -> block_new_opcode(S, OP_LT)
    [] op = "TOKEN_GREATER_EQUAL" -> block_new_opcode(S, OP_GTE)
    [] op = "TOKEN_LESS_EQUAL" -> block_new_opcode(S, OP_LTE)
    [] op = "TOKEN_EQUAL_EQUAL" -> block_new_opcode(S, OP_EQ)
    [] op = "TOKEN_NOT_EQUAL" -> block_new_opcodes(S, OP_EQ, OP_NOT)
    [] OTHER -> Null(parse_error(S))

\* binary, after the right operand
binary_emit(S1, lhs, prev) ==
  IF Stopped(S1) THEN S1
  ELSE IF lhs.t = "num" /\ S1.val.t = "num" THEN BINARY_OP_A(S1, prev)
  ELSE Null(parse_error(S1))

\* binary: the right operand is parsed one level above the operator's own
binary_rule(S, lhs, canAssign) ==
  binary_emit(expression(S, rules_precedence(S.previous.type) + 1), lhs,
              S.previous.type)

\* call_function, one argument parsed: its type is checked against the
\* parameter's; pos is where the argument started
call_argument(S2, fun, argc, pos) ==
  IF Stopped(S2) THEN S2
  ELSE IF ~type_check_single(S2.val,
            IF argc < Len(S2.objects[fun.n].parameters)
            THEN S2.objects[fun.n].parameters[argc + 1].t ELSE "null")
  THEN [Null(parse_error(S2)) EXCEPT !.ret = 0 - 1]
  ELSE IF S2.pos = pos THEN [S2 EXCEPT !.status = "hang"]
  ELSE CallArguments(S2, fun, argc + 1)

\* the argument loop of call_function; ret is the number of arguments, or -1
\* when an argument has the wrong type
CallArguments(S, fun, argc) ==
  IF check(S, "TOKEN_RPAREN") THEN [S EXCEPT !.ret = argc]
  ELSE call_argument(
         expression(IF argc > 0 THEN consume(S, "TOKEN_COMMA") ELSE S,
                    PREC_ASSIGNMENT),
         fun, argc, S.pos)

\* call_function, after the argument loop
call_function_end(S1, fun) ==
  IF Stopped(S1) THEN S1
  ELSE IF S1.ret = 0 - 1 THEN S1
  ELSE IF S1.ret # S1.objects[fun.n].arity THEN Null(parse_error(S1))
  ELSE IF S1.ret > 255 THEN Null(parse_error(S1))
  ELSE [block_new_opcodes(consume(S1, "TOKEN_RPAREN"), OP_CALL, S1.ret) EXCEPT
          !.val = S1.objects[fun.n].returnType]

\* call_function
call_function(S, fun) == call_function_end(CallArguments(S, fun, 0), fun)

\* call
call(S, lhs, canAssign) ==
  IF ~type_check_single(lhs, "obj") THEN Null(parse_error(S))
  ELSE IF S.objects[lhs.n].type = "P_OBJ_FUNCTION" THEN call_function(S, lhs)
  ELSE Null(parse_error(S))

\* prefix(canAssign) through the function pointer of the rule
Prefix(rule, S, canAssign) ==
  CASE rule = "literal" -> literal(S, canAssign)
    [] rule = "variable" -> variable(S, canAssign)
    [] rule = "unary" -> unary(S, canAssign)
    [] rule = "grouping" -> grouping(S, canAssign)

\* infix(&result, canAssign) through the function pointer of the rule
Infix(rule, S, lhs, canAssign) ==
  CASE rule = "binary" -> binary_rule(S, lhs, canAssign)
    [] rule = "and" -> and(S, lhs, canAssign)
    [] rule = "or" -> or(S, lhs, canAssign)
    [] rule = "call" -> call(S, lhs, canAssign)

\* expression, the end: '=' after an expression that cannot be assigned to
expression_end(S3, canAssign) ==
  IF ~canAssign /\ check(S3, "TOKEN_EQUAL") THEN Null(parse_error(advance(S3)))
  ELSE S3

\* expression, the infix loop: S1 is the state after advance(); a rule
\* without an infix handler is called through its NULL pointer
expression_infix(S, prec, canAssign) ==
  IF Stopped(S) THEN S
  ELSE IF prec <= rules_precedence(Cur(S).type)
  THEN IF InfixRule(Cur(S).type) = "NULL"
       THEN [advance(S) EXCEPT !.status = "crash"]
       ELSE expression_infix(
              Infix(InfixRule(Cur(S).type), advance(S), S.val, canAssign),
              prec, canAssign)
  ELSE expression_end(S, canAssign)

\* expression, the prefix rule of the token advance() made previous
expression_prefix(S1, prec, canAssign) ==
  IF PrefixRule(S1.previous.type) = "NULL" THEN Null(parse_error(S1))
  ELSE expression_infix(Prefix(PrefixRule(S1.previous.type), S1, canAssign),
                        prec, canAssign)

\* expression
expression(S, prec) ==
  IF Stopped(S) THEN S
  ELSE expression_prefix(advance(S), prec, prec <= PREC_ASSIGNMENT)

\* enum ValueType (value.h), as the number parameter_type returns
ValueTypeIndex(t) ==
  CASE t = "null" -> 0 [] t = "bool" -> 1 [] t = "num" -> 2 [] OTHER -> 3

\* parameter_type: ret is the ValueType of the declared type, or -1
parameter_type(S) ==
  IF check(S, "TOKEN_IDENTIFIER")
  THEN LET name == Cur(S).text
       IN IF name \notin DOMAIN S.globals
          THEN [parse_error(S) EXCEPT !.ret = 0 - 1]
          ELSE IF S.globals[name].t # "obj" THEN [S EXCEPT !.ret = 0 - 1]
          ELSE IF S.objects[S.globals[name].n].type # "P_OBJ_STRUCT"
          THEN [S EXCEPT !.ret = 0 - 1]
          ELSE [advance(S) EXCEPT !.ret = ValueTypeIndex("obj")]
  ELSE IF Cur(S).type \in TypeKeywords \cup {"TOKEN_VOID"}
  THEN [advance(S) EXCEPT
          !.ret = ValueTypeIndex(value_type_from_token_type(Cur(S).type))]
  ELSE [S EXCEPT !.ret = 0 - 1]

RECURSIVE statement(_), statement_print(_), statement_typed(_),
          statement_return(_), statement_exit(_), statement_if(_),
          statement_if_condition(_), statement_if_then(_),
          statement_if_else(_, _), statement_if_else_branch(_, _),
          statement_if_end(_, _), FunctionParameters(_, _),
          function_parameter_next(_, _, _), statement_function(_, _),
          statement_function_name(_, _, _),
          statement_function_parameters(_, _, _),
          statement_function_define(_, _, _, _),
          statement_function_body(_, _, _), statement_declaration(_),
          statement_declaration_kind(_, _), statement_declaration_local(_, _),
          statement_declaration_global(_, _), declaration_global_name(_, _, _),
          declaration_global_define(_, _, _), statement_while(_),
          statement_while_condition(_, _), statement_while_body(_, _),
          statement_for(_), statement_for_initializer(_),
          statement_for_conditional(_), statement_for_condition(_, _),
          statement_for_jump(_, _), statement_for_post(_, _, _),
          statement_for_back(_, _, _, _), statement_for_body(_, _, _),
          statement_block(_), BlockStatements(_), parse_function(_, _),
          FunctionStatements(_)

\* the end of statement: an optional ';', then synchronize after an error
StatementEnd(S) ==
  IF Stopped(S) THEN S
  ELSE IF match(S, "TOKEN_SEMICOLON").had_error
  THEN synchronize(match(S, "TOKEN_SEMICOLON"))
  ELSE match(S, "TOKEN_SEMICOLON")

\* statement_if, after the else branch: the operand of JUMP is patched
statement_if_end(S8, start2) ==
  IF Stopped(S8) THEN S8
  ELSE PatchJump(S8, start2, Saturate(CodeSize(S8) - start2 - 1))

\* statement_if, the else branch: the operand of CJUMPF is patched first
statement_if_else_branch(S6, start) ==
  statement_if_end(
    statement(PatchJump(S6, start, Saturate(CodeSize(S6) - start - 1))),
    CodeSize(S6) - 2)

\* statement_if, after the then branch
statement_if_else(S5, start) ==
  IF Stopped(S5) THEN S5
  ELSE IF check(S5, "TOKEN_ELSE")
  THEN statement_if_else_branch(
         block_new_opcodes_3(advance(S5), OP_JUMP, 255, 255), start)
  ELSE PatchJump(S5, start, Saturate(CodeSize(S5) - start - 1))

\* statement_if, the then branch: start is the place of CJUMPF's operand
statement_if_then(S4) == statement_if_else(statement(S4), CodeSize(S4) - 2)

\* statement_if, after the condition
statement_if_condition(S2) ==
  IF Stopped(S2) THEN S2
  ELSE IF ~type_check_single(S2.val, "bool") THEN parse_error(S2)
  ELSE statement_if_then(
         block_new_opcodes_3(consume(S2, "TOKEN_RPAREN"), OP_CJUMPF, 255, 255))

\* statement_if
statement_if(S) ==
  statement_if_condition(
    expression(consume(S, "TOKEN_LPAREN"), PREC_ASSIGNMENT))

\* statement_function, one parameter: its name string, its type in
\* function->parameters, its local
function_parameter_local(S1, function, param) ==
  new_local([p_object_new(S1, PString(S1.previous.text)) EXCEPT
               !.objects[function].parameters = Append(@, param),
               !.objects[function].arity = @ + 1],
            S1.previous, param)

\* statement_function, one turn of the parameter loop up to the comma
function_parameter(S, function) ==
  IF Cur(S).type \in TypeKeywords
  THEN function_parameter_local(
         consume(advance(S), "TOKEN_IDENTIFIER"), function,
         [t |-> value_type_from_token_type(Cur(S).type), n |-> 0])
  ELSE parse_error(S)

\* statement_function: if (!check(TOKEN_RPAREN)) consume(TOKEN_COMMA)
function_parameter_comma(S3) ==
  IF ~check(S3, "TOKEN_RPAREN") THEN consume(S3, "TOKEN_COMMA") ELSE S3

\* the next turn of the parameter loop: a turn that consumed no token is
\* repeated for ever
function_parameter_next(S4, function, pos) ==
  IF S4.pos = pos THEN [S4 EXCEPT !.status = "hang"]
  ELSE FunctionParameters(S4, function)

\* the parameter loop of statement_function
FunctionParameters(S, function) ==
  IF check(S, "TOKEN_RPAREN") THEN advance(S)
  ELSE function_parameter_next(
         function_parameter_comma(function_parameter(S, function)),
         function, S.pos)

\* statement_function: the function becomes a global of the compiler
DefineFunction(S4, fname, fval) ==
  IF S4.scope # 0 THEN parse_error(S4)
  ELSE IF fname \in DOMAIN S4.globals
  THEN parse_error([S4 EXCEPT !.globals = hash_table_set(@, fname, fval)])
  ELSE [S4 EXCEPT !.globals = hash_table_set(@, fname, fval)]

\* statement_function, the last three opcodes: index is the name's constant
statement_function_set(S9, index) ==
  block_new_opcode(block_new_opcodes(Constant(S9), OP_CONSTANT, index),
                   OP_GLOBAL_SET)

\* statement_function, the opcodes that define the global
statement_function_emit(S7, function) ==
  statement_function_set(
    block_new_constant(block_new_opcode(Constant(S7), OP_GLOBAL_DEFINE),
                       value_new_object(function)),
    S7.ret)

\* statement_function, after parse_function
statement_function_body(S6, fnameId, function) ==
  IF Stopped(S6) THEN S6
  ELSE statement_function_emit(
         block_new_constant(S6, value_new_object(fnameId)), function)

\* statement_function, after the parameter loop
statement_function_define(S3, fname, fnameId, function) ==
  IF Stopped(S3) THEN S3
  ELSE statement_function_body(
         parse_function(
           DefineFunction([S3 EXCEPT !.scope = @ - 1], fname,
                          value_new_object(function)),
           function),
         fnameId, function)

\* statement_function, the parameter loop one scope deeper
statement_function_parameters(S2, fname, fnameId) ==
  statement_function_define(
    FunctionParameters([S2 EXCEPT !.scope = @ + 1], S2.ret),
    fname, fnameId, S2.ret)

\* statement_function, the function object after its name string
statement_function_name(S1, returnType, fname) ==
  statement_function_parameters(
    p_object_new(S1, PFunction(S1.ret, returnType)), fname, S1.ret)

\* statement_function
statement_function(S, returnType) ==
  statement_function_name(
    p_object_new(consume(S, "TOKEN_LPAREN"), PString(S.previous.text)),
    returnType, S.previous.text)

\* OP_LOCAL_SET with the index new_local returned
LocalSet(S3) == block_new_opcodes(S3, OP_LOCAL_SET, S3.ret)

\* statement_declaration_local, after the redeclaration test
declaration_local_new(S2, name, type, val) ==
  IF ~type_check_single(val, type) THEN parse_error(S2)
  ELSE LocalSet(new_local(S2, name, val))

\* statement_declaration_local, after the initializer
declaration_local_value(S1, name, type) ==
  IF Stopped(S1) THEN S1
  ELSE declaration_local_new(
         IF get_local(S1, name) # 0 - 1 THEN parse_error(S1) ELSE S1,
         name, type, S1.val)

\* statement_declaration_local
statement_declaration_local(S, type) ==
  declaration_local_value(
    expression(consume(S, "TOKEN_EQUAL"), PREC_ASSIGNMENT), S.previous, type)

\* statement_declaration_global, after the initializer
declaration_global_value(S4, name, type, index) ==
  IF Stopped(S4) THEN S4
  ELSE IF ~type_check_single(S4.val, type) THEN parse_error(S4)
  ELSE block_new_opcode(
         block_new_opcodes(
           [S4 EXCEPT !.globals = hash_table_set(@, name, S4.val)],
           OP_CONSTANT, index),
         OP_GLOBAL_SET)

\* statement_declaration_global, CONSTANT name and GLOBAL_DEFINE, then the
\* initializer
declaration_global_define(S2, name, type) ==
  declaration_global_value(
    expression(
      consume(block_new_opcode(Constant(S2), OP_GLOBAL_DEFINE), "TOKEN_EQUAL"),
      PREC_ASSIGNMENT),
    name, type, S2.ret)

\* statement_declaration_global, the name string as a constant
declaration_global_name(S1, name, type) ==
  declaration_global_define(
    block_new_constant(S1, value_new_object(S1.ret)), name, type)

\* statement_declaration_global
statement_declaration_global(S, type) ==
  declaration_global_name(p_object_new(S, PString(S.previous.text)),
                          S.previous.text, type)

\* statement_declaration, after the name
statement_declaration_kind(S1, type) ==
  IF check(S1, "TOKEN_LPAREN")
  THEN statement_function(S1, [t |-> type, n |-> 0])
  ELSE IF S1.scope # 0 THEN statement_declaration_local(S1, type)
  ELSE statement_declaration_global(S1, type)

\* statement_declaration
statement_declaration(S) ==
  statement_declaration_kind(consume(S, "TOKEN_IDENTIFIER"),
                             value_type_from_token_type(S.previous.type))

\* statement_while, the operand of JUMP_BACK
statement_while_back(S6, start) ==
  PatchJump(S6, CodeSize(S6) - 2, Saturate(CodeSize(S6) - 2 + 1 - start))

\* statement_while, after the body: the operand of CJUMPF, then JUMP_BACK
statement_while_end(S4, start, codes) ==
  IF Stopped(S4) THEN S4
  ELSE statement_while_back(
         block_new_opcodes_3(
           PatchJump(S4, codes, Saturate(CodeSize(S4) - (codes + 2) + 4)),
           OP_JUMP_BACK, 255, 255),
         start)

\* statement_while, the body
statement_while_body(S3, start) ==
  statement_while_end(statement(S3), start, CodeSize(S3) - 2)

\* statement_while, after the condition
statement_while_condition(S2, start) ==
  IF Stopped(S2) THEN S2
  ELSE IF ~type_check_single(S2.val, "bool") THEN parse_error(S2)
  ELSE statement_while_body(
         block_new_opcodes_3(consume(S2, "TOKEN_RPAREN"), OP_CJUMPF, 255, 255),
         start)

\* statement_while
statement_while(S) ==
  statement_while_condition(
    expression(consume(S, "TOKEN_LPAREN"), PREC_ASSIGNMENT), CodeSize(S))

\* OP_JUMP_BACK with a 16-bit operand
JumpBack(S, size) ==
  block_new_opcodes_3(S, OP_JUMP_BACK, (size \div 256) % 256, size % 256)

\* statement_for, the end: the operand of CJUMPF, the scope, the locals
statement_for_leave(S9, conditionalJump) ==
  pop_locals([(IF conditionalJump # 0 - 1
               THEN PatchJump(S9, conditionalJump,
                              Saturate(CodeSize(S9) - conditionalJump - 1))
               ELSE S9) EXCEPT !.scope = @ - 1])

\* statement_for, after the body: JUMP_BACK to the post expression
statement_for_end(S8, conditionalJump, postPos) ==
  IF Stopped(S8) THEN S8
  ELSE statement_for_leave(JumpBack(S8, Saturate(CodeSize(S8) - postPos)),
                           conditionalJump)

\* statement_for, the operand of JUMP is patched, then the body
statement_for_body(S6, conditionalJump, postPos) ==
  statement_for_end(
    statement(
      PatchJump(S6, postPos,
                Saturate(IF conditionalJump = 0 - 1
                         THEN CodeSize(S6) - postPos - 1
                         ELSE CodeSize(S6) - conditionalJump - 4))),
    conditionalJump, postPos)

\* statement_for, JUMP_BACK to the conditional after the post expression
statement_for_back(S5, start, conditionalJump, postPos) ==
  statement_for_body(JumpBack(S5, Saturate(CodeSize(S5) - start + 2)),
                     conditionalJump, postPos)

\* statement_for, after the post expression
statement_for_post_end(Sp, start, conditionalJump, postPos) ==
  IF Stopped(Sp) THEN Sp
  ELSE statement_for_back(consume(Sp, "TOKEN_RPAREN"), start, conditionalJump,
                          postPos)

\* statement_for, the post expression: S4 is the state after JUMP
statement_for_post(S4, start, conditionalJump) ==
  IF check(S4, "TOKEN_RPAREN")
  THEN statement_for_back(advance(S4), start, conditionalJump, CodeSize(S4) - 2)
  ELSE statement_for_post_end(expression(S4, PREC_ASSIGNMENT), start,
                              conditionalJump, CodeSize(S4) - 2)

\* statement_for, JUMP after CJUMPF
statement_for_jump(S3, start) ==
  statement_for_post(block_new_opcodes_3(S3, OP_JUMP, 255, 255), start,
                     CodeSize(S3) - 2)

\* statement_for, after the condition
statement_for_condition(Sc, start) ==
  IF Stopped(Sc) THEN Sc
  ELSE IF Sc.val.t # "bool" THEN parse_error(Sc)
  ELSE statement_for_jump(
         block_new_opcodes_3(consume(Sc, "TOKEN_SEMICOLON"), OP_CJUMPF, 255,
                             255),
         start)

\* statement_for, the conditional
statement_for_conditional(S2) ==
  IF Stopped(S2) THEN S2
  ELSE IF check(S2, "TOKEN_SEMICOLON")
  THEN statement_for_post(block_new_opcodes_3(advance(S2), OP_JUMP, 255, 255),
                          CodeSize(S2), 0 - 1)
  ELSE statement_for_condition(expression(S2, PREC_ASSIGNMENT), CodeSize(S2))

\* statement_for, after a declaration as the initializer
for_initializer_declaration(Sd) ==
  IF Stopped(Sd) THEN Sd
  ELSE IF Sd.previous.type # "TOKEN_SEMICOLON"
  THEN consume(Sd, "TOKEN_SEMICOLON")
  ELSE Sd

\* statement_for, after an expression as the initializer
for_initializer_expression(Se) ==
  IF Stopped(Se) THEN Se ELSE consume(Se, "TOKEN_SEMICOLON")

\* statement_for, the initializer
statement_for_initializer(S1) ==
  IF check(S1, "TOKEN_SEMICOLON") THEN advance(S1)
  ELSE IF Cur(S1).type \in TypeKeywords
  THEN for_initializer_declaration(statement_declaration(advance(S1)))
  ELSE for_initializer_expression(expression(S1, PREC_ASSIGNMENT))

\* statement_for
statement_for(S) ==
  statement_for_conditional(
    statement_for_initializer(
      [consume(S, "TOKEN_LPAREN") EXCEPT !.scope = @ + 1]))

\* the loop of statement_block: at EOF statement() consumes nothing and '}'
\* never comes
BlockStatements(S) ==
  IF Stopped(S) THEN S
  ELSE IF check(S, "TOKEN_RBRACE") THEN advance(S)
  ELSE IF check(S, "TOKEN_EOF") THEN [S EXCEPT !.status = "hang"]
  ELSE BlockStatements(statement(S))

\* statement_block, after the loop
statement_block_end(S1) ==
  IF Stopped(S1) THEN S1 ELSE pop_locals([S1 EXCEPT !.scope = @ - 1])

\* statement_block
statement_block(S) ==
  statement_block_end(BlockStatements([S EXCEPT !.scope = @ + 1]))

\* statement, print
statement_print(S1) ==
  IF Stopped(S1) THEN S1 ELSE StatementEnd(block_new_opcode(S1, OP_PRINT))

\* statement, return
statement_return(S1) ==
  IF Stopped(S1) THEN S1
  ELSE IF ~type_check(S1, S1.val, S1.objects[S1.function].returnType)
  THEN parse_error(S1)
  ELSE StatementEnd(block_new_opcode(S1, OP_RETURN))

\* statement, exit
statement_exit(S1) ==
  IF Stopped(S1) THEN S1
  ELSE IF ~type_check_single(S1.val, "num") THEN parse_error(S1)
  ELSE StatementEnd(block_new_opcode(S1, OP_EXIT))

\* statement, from parameter_type on
statement_typed(P) ==
  IF P.ret >= 0 THEN StatementEnd(statement_declaration(P))
  ELSE IF check(P, "TOKEN_WHILE") THEN StatementEnd(statement_while(advance(P)))
  ELSE IF check(P, "TOKEN_FOR") THEN StatementEnd(statement_for(advance(P)))
  ELSE IF check(P, "TOKEN_RETURN")
  THEN statement_return(expression(advance(P), PREC_ASSIGNMENT))
  ELSE IF check(P, "TOKEN_EXIT")
  THEN statement_exit(expression(advance(P), PREC_ASSIGNMENT))
  ELSE IF check(P, "TOKEN_LBRACE")
  THEN StatementEnd(statement_block(advance(P)))
  ELSE StatementEnd(expression(P, PREC_ASSIGNMENT))

\* statement
statement(S) ==
  IF Stopped(S) THEN S
  ELSE IF check(S, "TOKEN_PRINT")
  THEN statement_print(expression(advance(S), PREC_ASSIGNMENT))
  ELSE IF check(S, "TOKEN_IF") THEN StatementEnd(statement_if(advance(S)))
  ELSE statement_typed(parameter_type(S))

\* the loop of parse_function: match(TOKEN_EOF) or match(TOKEN_RBRACE) ends it
FunctionStatements(S) ==
  IF Stopped(S) THEN S
  ELSE IF check(S, "TOKEN_EOF") THEN S
  ELSE IF check(S, "TOKEN_RBRACE") THEN advance(S)
  ELSE FunctionStatements(statement(S))

\* parse_function, the end: after an error it returns NULL with
\* parser.function and parser.scope as they are
parse_function_return(S4, enclosing) ==
  IF S4.had_error THEN S4
  ELSE [S4 EXCEPT !.function = enclosing, !.scope = @ - 1]

\* parse_function, after the loop: the trailing OP_RETURN
parse_function_end(S2, enclosing) ==
  IF Stopped(S2) THEN S2
  ELSE parse_function_return(
         block_new_opcode(IF S2.previous.type # "TOKEN_RBRACE"
                          THEN parse_error(S2) ELSE S2, OP_RETURN),
         enclosing)

\* parse_function
parse_function(S, target) ==
  parse_function_end(
    FunctionStatements(
      [consume([S EXCEPT !.scope = @ + 1], "TOKEN_LBRACE") EXCEPT
         !.function = target]),
    S.function)

(***************************************************************************)
(* Token streams.                                                          *)
(***************************************************************************)
K(type) == Tok(type, "")
Id(name) == Tok("TOKEN_IDENTIFIER", name)
TInt(n) == [type |-> "TOKEN_LITERAL_INTEGER", text |-> "", num |-> n]
TEOF == K("TOKEN_EOF")
TTrue == K("TOKEN_TRUE")
TFalse == K("TOKEN_FALSE")
TBool == K("TOKEN_BOOL")
TSemi == K("TOKEN_SEMICOLON")
TLParen == K("TOKEN_LPAREN")
TRParen == K("TOKEN_RPAREN")
TLBrace == K("TOKEN_LBRACE")
TRBrace == K("TOKEN_RBRACE")
TComma == K("TOKEN_COMMA")
TEqual == K("TOKEN_EQUAL")
TPrint == K("TOKEN_PRINT")
TReturn == K("TOKEN_RETURN")

TTrueOr(b) == IF b THEN TTrue ELSE TFalse

RECURSIVE Concat(_)
Concat(seqs) == IF seqs = <<>> THEN <<>> ELSE Head(seqs) \o Concat(Tail(seqs))

\* identifiers of the generated programs
ParamNames == <<"p", "q", "r", "s">>
OtherNames == <<"u", "v", "w", "t">>
LocalNames == <<"x", "y", "z", "k">>

\* bool NAME = LITERAL;
Declaration(name, b) == <<TBool, Id(name), TEqual, TTrueOr(b), TSemi>>

\* bool n1, bool n2, ...
ParameterList(names, n) ==
  Concat([i \in 1..n |-> (IF i > 1 THEN <<TComma>> ELSE <<>>) \o
                         <<TBool, Id(names[i])>>])

\* bool x = false; bool y = false; ...
LocalDeclarations(names, n) ==
  Concat([i \in 1..n |-> Declaration(names[i], FALSE)])

\* bool FNAME(PARAMS) { LOCALS BODY }
FunctionDeclaration(fname, names, np, nl, body) ==
  <<TBool, Id(fname), TLParen>> \o ParameterList(names, np) \o
  <<TRParen, TLBrace>> \o LocalDeclarations(LocalNames, nl) \o body \o
  <<TRBrace>>

\* print FNAME(ARGS); the k-th argument is true and the others are false
PrintCall(fname, n, k) ==
  <<TPrint, Id(fname), TLParen>> \o
  Concat([i \in 1..n |-> (IF i > 1 THEN <<TComma>> ELSE <<>>) \o
                         <<TTrueOr(i = k)>>]) \o
  <<TRParen, TSemi>>

ReturnKinds == {"none", "literal", "parameter", "local"}

\* the body of the generated function: no return, return true, return the
\* first parameter, return the last local
ReturnStatement(kind, np, nl) ==
  CASE kind = "none" -> <<>>
    [] kind = "literal" -> <<TReturn, TTrue, TSemi>>
    [] kind = "parameter" -> <<TReturn, Id(ParamNames[1]), TSemi>>
    [] kind = "local" -> <<TReturn, Id(LocalNames[nl]), TSemi>>

\* one function of np parameters and nl locals, called once
FunctionSource(np, nl, kind) ==
  FunctionDeclaration("f", ParamNames, np, nl, ReturnStatement(kind, np, nl))
  \o PrintCall("f", np, 1) \o <<TEOF>>

FunctionSources ==
  {FunctionSource(np, nl, kind) : np \in 0..MaxParams, nl \in 0..MaxLocals,
                                  kind \in {"none", "literal"}}
  \cup {FunctionSource(np, nl, "parameter") :
          np \in 1..MaxParams, nl \in 0..MaxLocals}
  \cup {FunctionSource(np, nl, "local") :
          np \in 0..MaxParams, nl \in 1..MaxLocals}

\* a function f of n1 parameters, then a function g of n2 parameters that
\* returns its k-th one, called with true for the k-th argument only
TwoFunctionSource(n1, n2, k) ==
  FunctionDeclaration("f", OtherNames, n1, 0, <<>>) \o
  FunctionDeclaration("g", ParamNames, n2, 0,
                      <<TReturn, Id(ParamNames[k]), TSemi>>) \o
  PrintCall("g", n2, k) \o <<TEOF>>

TwoFunctionSources ==
  UNION {{TwoFunctionSource(n1, n2, k) : k \in 1..n2} :
           n1 \in 0..MaxParams, n2 \in 1..MaxParams}

\* A && B; and A || B; over the boolean literals
LogicOperators == {"TOKEN_AND", "TOKEN_OR"}
LogicSource(a, op, b) == <<TTrueOr(a), K(op), TTrueOr(b), TSemi, TEOF>>
LogicSources ==
  {LogicSource(a, op, b) : a \in BOOLEAN, op \in LogicOperators, b \in BOOLEAN}

\* print 1 OP1 2 OP2 3;
BinaryOperators ==
  {"TOKEN_PLUS", "TOKEN_MINUS", "TOKEN_STAR", "TOKEN_SLASH", "TOKEN_LESS",
   "TOKEN_GREATER", "TOKEN_LESS_EQUAL", "TOKEN_GREATER_EQUAL",
   "TOKEN_EQUAL_EQUAL", "TOKEN_NOT_EQUAL"}
ExpressionSource(op1, op2) ==
  <<TPrint, TInt(1), K(op1), TInt(2), K(op2), TInt(3), TSemi, TEOF>>
ExpressionSources ==
  {ExpressionSource(op1, op2) : op1 \in BinaryOperators, op2 \in BinaryOperators}

\* print 1 < 2 == 3 < 4;
ComparisonSource ==
  <<TPrint, TInt(1), K("TOKEN_LESS"), TInt(2), K("TOKEN_EQUAL_EQUAL"),
    TInt(3), K("TOKEN_LESS"), TInt(4), TSemi, TEOF>>

\* 1 = 2; print 3;  and  1 + 2 = 3; print 3;
AssignLiteralSource ==
  <<TInt(1), TEqual, TInt(2), TSemi, TPrint, TInt(3), TSemi, TEOF>>
AssignSumSource ==
  <<TInt(1), K("TOKEN_PLUS"), TInt(2), TEqual, TInt(3), TSemi,
    TPrint, TInt(3), TSemi, TEOF>>

\* { OUTER { INNER } }: n1 locals in the outer block, n2 in the inner one,
\* the inner ones under the outer names when shadow holds
BlockSource(n1, n2, shadow) ==
  <<TLBrace>> \o LocalDeclarations(LocalNames, n1) \o <<TLBrace>> \o
  LocalDeclarations(IF shadow THEN LocalNames ELSE OtherNames, n2) \o
  <<TRBrace, TRBrace, TEOF>>

BlockSources ==
  {BlockSource(n1, n2, FALSE) : n1 \in 0..MaxLocals, n2 \in 0..MaxLocals}
  \cup {BlockSource(n1, n2, TRUE) : n1 \in 1..MaxLocals, n2 \in 1..MaxLocals}

\* { bool x = true; bool x = false; }
RedeclareSource ==
  <<TLBrace>> \o Declaration("x", TRUE) \o Declaration("x", FALSE) \o
  <<TRBrace, TEOF>>

\* { bool x = true; ... (x = false); }: n locals, the first one assigned
OverwriteSource(n) ==
  <<TLBrace>> \o LocalDeclarations(LocalNames, n) \o
  <<TLParen, Id("x"), TEqual, TFalse, TRParen, TSemi, TRBrace, TEOF>>
OverwriteSources == {OverwriteSource(n) : n \in 1..MaxLocals}

\* bool f() { print 1; return true; } A OP f();
SideEffectSource(a, op) ==
  <<TBool, Id("f"), TLParen, TRParen, TLBrace, TPrint, TInt(1), TSemi,
    TReturn, TTrue, TSemi, TRBrace,
    TTrueOr(a), K(op), Id("f"), TLParen, TRParen, TSemi, TEOF>>
SideEffectSources ==
  {SideEffectSource(a, op) : a \in BOOLEAN, op \in LogicOperators}

\* bool f() { return f(); } f();
RecursionSource ==
  <<TBool, Id("f"), TLParen, TRParen, TLBrace, TReturn, Id("f"), TLParen,
    TRParen, TSemi, TRBrace, Id("f"), TLParen, TRParen, TSemi, TEOF>>

\* print 0; ... print 0; print 7;   with UINT8_MAX + 2 literals, one more
\* than a one-byte index can tell apart
ManyConstantsSource ==
  [i \in 1..(3 * (UINT8_MAX + 2) + 1) |->
     IF i = 3 * (UINT8_MAX + 2) + 1 THEN TEOF
     ELSE IF i % 3 = 1 THEN TPrint
     ELSE IF i % 3 = 2 THEN TInt(IF i > 3 * (UINT8_MAX + 1) THEN 7 ELSE 0)
     ELSE TSemi]

\* { print 1;   with no closing brace
UnclosedBlockSource == <<TLBrace, TPrint, TInt(1), TSemi, TEOF>>

\* for (bool x = true; x; x = false) { bool y = false; }
ForSource ==
  <<K("TOKEN_FOR"), TLParen>> \o Declaration("x", TRUE) \o
  <<Id("x"), TSemi, Id("x"), TEqual, TFalse, TRParen, TLBrace>> \o
  Declaration("y", FALSE) \o <<TRBrace, TEOF>>

\* bool f(bool p) { bool x = false; } { bool y = true; }
FunctionThenBlockSource ==
  FunctionDeclaration("f", ParamNames, 1, 1, <<>>) \o
  <<TLBrace>> \o Declaration("y", TRUE) \o <<TRBrace, TEOF>>

\* if (false) bool g = true; print g;   the declaration is compiled, and g is
\* a global of the compiler, but the branch that defines it is not taken
UndefinedGlobalSource ==
  <<K("TOKEN_IF"), TLParen, TFalse, TRParen>> \o Declaration("g", TRUE) \o
  <<TPrint, Id("g"), TSemi, TEOF>>

\* bool g = V; bool g = g; print g;
RedeclareGlobalSource(v) ==
  Declaration("g", v) \o
  <<TBool, Id("g"), TEqual, Id("g"), TSemi, TPrint, Id("g"), TSemi, TEOF>>
RedeclareGlobalSources == {RedeclareGlobalSource(v) : v \in BOOLEAN}

\* print abs(1);
BuiltinCallSource ==
  <<TPrint, Id("abs"), TLParen, TInt(1), TRParen, TSemi, TEOF>>

\* statements that reach the remaining opcodes
OtherSources == {
  \* bool g = true; print g; g = false; print !g;
  Declaration("g", TRUE) \o <<TPrint, Id("g"), TSemi, Id("g"), TEqual, TFalse,
    TSemi, TPrint, K("TOKEN_EXCLAMATION"), Id("g"), TSemi, TEOF>>,
  \* print -1; exit 2;
  <<TPrint, K("TOKEN_MINUS"), TInt(1), TSemi, K("TOKEN_EXIT"), TInt(2), TSemi,
    TEOF>>,
  \* if (true) { print 1; } else { print 2; }
  <<K("TOKEN_IF"), TLParen, TTrue, TRParen, TLBrace, TPrint, TInt(1), TSemi,
    TRBrace, K("TOKEN_ELSE"), TLBrace, TPrint, TInt(2), TSemi, TRBrace, TEOF>>,
  \* while (false) { print 1; }
  <<K("TOKEN_WHILE"), TLParen, TFalse, TRParen, TLBrace, TPrint, TInt(1),
    TSemi, TRBrace, TEOF>>,
  \* print abs(1);
  <<TPrint, Id("abs"), TLParen, TInt(1), TRParen, TSemi, TEOF>>,
  \* print x;
  <<TPrint, Id("x"), TSemi, TEOF>>
}

Sources ==
  FunctionSources \cup TwoFunctionSources \cup LogicSources \cup
  ExpressionSources \cup BlockSources \cup OtherSources \cup
  OverwriteSources \cup SideEffectSources \cup RedeclareGlobalSources \cup
  {ComparisonSource, AssignLiteralSource, AssignSumSource, RedeclareSource,
   ForSource, FunctionThenBlockSource, UnclosedBlockSource, RecursionSource,
   ManyConstantsSource, UndefinedGlobalSource, BuiltinCallSource}

(***************************************************************************)
(* The state after lexer_init and parser_init, with the script function of *)
(* parse_script allocated.                                                 *)
(***************************************************************************)
ScriptObjects == <<PString("script"), PFunction(1, value_new_null)>>

InitParser ==
  [pos |-> 1, previous |-> NoToken, function |-> 2, globals |-> <<>>,
   scope |-> 0, locals |-> <<>>, had_error |-> FALSE, errors |-> 0]

\* a script function assembled through block.h, as interpret() takes it: the
\* objects after the function are the strings its constants refer to
AssembledScript(opcodes, constants, strings) ==
  <<PString("script"),
    [PFunction(1, value_new_null) EXCEPT !.opcodes = opcodes,
                                         !.constants = constants]>>
  \o [i \in 1..Len(strings) |-> PString(strings[i])]

\* CONSTANT true; then DUPE; JUMP_BACK 3 for ever
DupeLoopScript ==
  AssembledScript(<<OP_CONSTANT, 0, OP_DUPE, OP_JUMP_BACK, 0, 3>>,
                  <<value_new_boolean(TRUE)>>, <<>>)

AssembledScripts == {
  DupeLoopScript,
  \* NOP; CONSTANT 1; CONSTANT 2; SWAP; PRINT; PRINT; RETURN
  AssembledScript(<<OP_NOP, OP_CONSTANT, 0, OP_CONSTANT, 1, OP_SWAP, OP_PRINT,
                    OP_PRINT, OP_RETURN>>,
                  <<value_new_number(1), value_new_number(2)>>, <<>>),
  \* CONSTANT 1; POP  (no RETURN: the dispatch loop runs off the block)
  AssembledScript(<<OP_CONSTANT, 0, OP_POP>>, <<value_new_number(1)>>, <<>>),
  \* NOP; an opcode the switch has no case for
  AssembledScript(<<OP_NOP, 200>>, <<>>, <<>>),
  \* print abs(-3)
  AssembledScript(<<OP_CONSTANT, 0, OP_GLOBAL_GET, OP_CONSTANT, 1, OP_CALL, 1,
                    OP_PRINT, OP_RETURN>>,
                  <<value_new_object(3), value_new_number(0 - 3)>>, <<"abs">>),
  \* print clock()
  AssembledScript(<<OP_CONSTANT, 0, OP_GLOBAL_GET, OP_CALL, 0, OP_PRINT,
                    OP_RETURN>>,
                  <<value_new_object(3)>>, <<"clock">>),
  \* wln(true)
  AssembledScript(<<OP_CONSTANT, 0, OP_GLOBAL_GET, OP_CONSTANT, 1, OP_CALL, 1,
                    OP_RETURN>>,
                  <<value_new_object(3), value_new_boolean(TRUE)>>, <<"wln">>)
}

\* main: a source file is compiled and then interpreted; interpret() is also
\* given functions assembled through block.h
Init ==
  /\ \/ /\ src \in Sources
        /\ pc = "parse"
        /\ objects = ScriptObjects
     \/ /\ src = <<TEOF>>
        /\ pc = "parsed"
        /\ objects \in AssembledScripts
  /\ parser = InitParser
  /\ lexer = lexer_init(<<NUL>>)
  /\ token = NoLexeme
  /\ dynList = dyn_list_new
  /\ elems = <<>>
  /\ hashTable = hash_table_init
  /\ heap = [i \in 1..Len(objects) |-> Len(objects) + 1 - i]
  /\ stack = <<>>
  /\ sp = 0
  /\ frames = <<>>
  /\ fp = 0
  /\ globals = <<>>
  /\ result = 0
  /\ out = <<>>
  /\ effects = {}

\* struct Parser and the objects as one compiler record, and back
Compiler ==
  [pos |-> parser.pos, previous |-> parser.previous,
   function |-> parser.function, globals |-> parser.globals,
   scope |-> parser.scope, locals |-> parser.locals,
   had_error |-> parser.had_error, errors |-> parser.errors,
   objects |-> objects, heap |-> heap,
   status |-> "ok", val |-> value_new_null, ret |-> 0]

Commit(S, next) ==
  /\ parser' = [pos |-> S.pos, previous |-> S.previous,
                function |-> S.function, globals |-> S.globals,
                scope |-> S.scope, locals |-> S.locals,
                had_error |-> S.had_error, errors |-> S.errors]
  /\ objects' = S.objects
  /\ heap' = S.heap
  /\ pc' = IF S.status = "ok" THEN next ELSE S.status
  /\ UNCHANGED <<dynList, elems, hashTable, lexer, token, src, stack, sp,
                 frames, fp, globals, result, out, effects>>

\* one turn of the loop of parse_script: while (!match(TOKEN_EOF)) statement()
ParseStatement ==
  /\ pc = "parse"
  /\ ~check(Compiler, "TOKEN_EOF")
  /\ Commit(statement(Compiler), "parse")

\* the end of parse_script: the trailing OP_RETURN, NULL after an error
ParseScriptEnd ==
  /\ pc = "parse"
  /\ check(Compiler, "TOKEN_EOF")
  /\ LET S == block_new_opcode(Compiler, OP_RETURN)
     IN Commit(S, IF S.had_error THEN "rejected" ELSE "parsed")

\* standard_lib.c init_standard_lib: abs, wln and clock, each a name string
\* and a builtin
StandardLib ==
  <<PString("abs"), PBuiltin(Len(objects) + 1, "p_abs", 1),
    PString("wln"), PBuiltin(Len(objects) + 3, "p_wln", 1),
    PString("clock"), PBuiltin(Len(objects) + 5, "p_clock", 0)>>

\* interpreter_init, push_frame of the script function: interpreter.heap is
\* set to NULL before the builtins are allocated
InterpretStart ==
  /\ pc = "parsed"
  /\ pc' = "run"
  /\ objects' = objects \o StandardLib
  /\ heap' = [i \in 1..6 |-> Len(objects) + 7 - i]
  /\ globals' = [k \in {"abs", "wln", "clock"} |->
                   value_new_object(Len(objects) +
                     (CASE k = "abs" -> 2 [] k = "wln" -> 4 [] k = "clock" -> 6))]
  /\ sp' = 0
  /\ fp' = 1
  /\ frames' = <<[ip |-> 0, function |-> parser.function, slots |-> 0,
                  slotCount |-> objects[parser.function].arity]>>
  /\ UNCHANGED <<dynList, elems, hashTable, lexer, token, src, parser, stack,
                 result, out, effects>>

Next ==
  \/ ParseStatement
  \/ ParseScriptEnd
  \/ InterpretStart
  \/ OpNop
  \/ OpPop
  \/ OpDupe
  \/ OpSwap
  \/ OpExit
  \/ OpPrint
  \/ OpNot
  \/ OpNegate
  \/ OpBinary
  \/ OpConstant
  \/ OpGlobalDefine
  \/ OpGlobalSet
  \/ OpGlobalGet
  \/ OpLocalGet
  \/ OpLocalSet
  \/ OpCJumpF
  \/ OpCJumpT
  \/ OpJump
  \/ OpJumpBack
  \/ OpCall
  \/ OpReturn
  \/ OpUnknown
  \/ InterpretEnd

Spec == Init /\ [][Next]_vars

(***************************************************************************)
(* The jumps over long bodies.  A body of more than 65535 bytes takes tens *)
(* of thousands of statements, so the compiler is taken after the          *)
(* condition of the construct, with the placeholder emitted: pc names the  *)
(* construct and src holds what follows it, `;' and the end.  One action   *)
(* compiles the body, whose bytes are appended as the loop of              *)
(* statement_block emits them, patches the jumps and ends the script.      *)
(***************************************************************************)
JumpKinds == {"if", "while", "for"}

\* the most statements of a short body
MaxLead == 2
MaxBody == 9

\* the number of 3-byte statements that leaves the distance of the jump a few
\* bytes under UINT16_MAX: the lead and one more statement take it to
\* UINT16_MAX and over
LongBody == UINT16_MAX \div 3 - 4
BodySizes == (0..MaxBody) \cup {LongBody, LongBody + 1}

\* what the compiler has emitted before the body:
\*   if (true)      while (true)      for (; true; )
JumpPrefix(kind) ==
  IF kind = "for"
  THEN <<OP_CONSTANT, 0, OP_CJUMPF, 255, 255, OP_JUMP, 0, 4,
         OP_JUMP_BACK, 0, 10>>
  ELSE <<OP_CONSTANT, 0, OP_CJUMPF, 255, 255>>

\* the bytes of the body
\*   { bool x = true; print !x; ... print !x; print x; ... print x; }
\* CONSTANT 1, LOCAL_SET 0, lead times LOCAL_GET 0 NOT PRINT, n times
\* LOCAL_GET 0 PRINT, and the POP of x
JumpBody(lead, n) ==
  <<OP_CONSTANT, 1, OP_LOCAL_SET, 0>>
  \o [i \in 1..(4 * lead) |->
        CASE i % 4 = 1 -> OP_LOCAL_GET [] i % 4 = 2 -> 0
          [] i % 4 = 3 -> OP_NOT [] OTHER -> OP_PRINT]
  \o [i \in 1..(3 * n) |->
        CASE i % 3 = 1 -> OP_LOCAL_GET [] i % 3 = 2 -> 0 [] OTHER -> OP_PRINT]
  \o <<OP_POP>>

\* the tokens after the construct
RestOfSource == <<TSemi, TEOF>>

JumpInit ==
  /\ \E kind \in JumpKinds :
       /\ pc = kind
       /\ objects = AssembledScript(JumpPrefix(kind),
                                    <<value_new_boolean(TRUE)>>, <<>>)
       /\ parser = [InitParser EXCEPT !.scope = IF kind = "for" THEN 1 ELSE 0]
  /\ src = RestOfSource
  /\ lexer = lexer_init(<<NUL>>)
  /\ token = NoLexeme
  /\ dynList = dyn_list_new
  /\ elems = <<>>
  /\ hashTable = hash_table_init
  /\ heap = [i \in 1..Len(objects) |-> Len(objects) + 1 - i]
  /\ stack = <<>>
  /\ sp = 0
  /\ frames = <<>>
  /\ fp = 0
  /\ globals = <<>>
  /\ result = 0
  /\ out = <<>>
  /\ effects = {}

\* the compiler after the body: its bytes and the constant of x are in the
\* block, its closing brace is the previous token, x is out of scope again
AfterBody(lead, n) ==
  [Compiler EXCEPT
     !.objects[2].opcodes = @ \o JumpBody(lead, n),
     !.objects[2].constants = Append(@, value_new_boolean(TRUE)),
     !.previous = TRBrace]

\* the end of parse_script after the last statement
ScriptEnd(S) ==
  Commit(block_new_opcode(S, OP_RETURN),
         IF S.had_error THEN "rejected" ELSE "parsed")

\* statement_if from the then branch on: start is the place of the operand
\* of CJUMPF
CompileIf ==
  /\ pc = "if"
  /\ \E lead \in 0..MaxLead, n \in BodySizes :
       ScriptEnd(StatementEnd(statement_if_else(AfterBody(lead, n), 3)))

\* statement_while from the body on
CompileWhile ==
  /\ pc = "while"
  /\ \E lead \in 0..MaxLead, n \in BodySizes :
       ScriptEnd(StatementEnd(statement_while_end(AfterBody(lead, n), 0, 3)))

\* statement_for from the body on: conditionalJump and postPos are the
\* places of the operands of CJUMPF and of JUMP
CompileFor ==
  /\ pc = "for"
  /\ \E lead \in 0..MaxLead, n \in BodySizes :
       ScriptEnd(StatementEnd(statement_for_end(AfterBody(lead, n), 3, 6)))

JumpNext ==
  \/ CompileIf
  \/ CompileWhile
  \/ CompileFor

JumpSpec == JumpInit /\ [][JumpNext]_vars

(***************************************************************************)
(* The lexer under a client that calls lexer_next_token again and again.   *)
(* The source is one or two lexemes and its NUL.  A call made when the     *)
(* cursor is past the NUL reads memory that is not part of the source: the *)
(* bytes found there are any of BytesAfter.                                *)
(***************************************************************************)
Lexemes == {
  <<"i", "f">>, <<"i", "f", "f", "y">>, <<"p", "r", "i", "n", "t">>,
  <<"p", "r", "i", "n", "t", "e", "r">>, <<"e", "l", "s", "e">>,
  <<"f", "o", "r">>, <<"r", "e", "t", "u", "r", "n">>, <<"i", "3", "2">>,
  <<"x">>, <<"t", "r", "u", "e">>, <<"1", "2">>, <<"1", ".", "5">>, <<";">>,
  <<"!", "=">>, <<"=">>, <<"/", "/", "x", NL>>, <<"/">>, <<"\"", "a", "\"">>,
  <<"\"", "a">>, <<"&", "&">>, <<"|">>, <<"#">>, <<NL>>
}

\* the sources: a lexeme, or two with a space between them
LexInputs ==
  {w \o <<NUL>> : w \in Lexemes}
    \cup {w[1] \o <<" ">> \o w[2] \o <<NUL>> : w \in Lexemes \X Lexemes}

\* the bytes a read past the NUL may find, and the most calls that read them
BytesAfter == {<<NUL>>, <<"x", NUL>>, <<";", NUL>>, <<"#", NUL>>}
MaxPast == 2

\* the offset of the terminating NUL of the source
NulAt(input) == (CHOOSE k \in 1..Len(input) :
                   input[k] = NUL /\ \A j \in 1..(k - 1) : input[j] # NUL) - 1

LexInit ==
  /\ pc = "lex"
  /\ lexer \in {lexer_init(input) : input \in LexInputs}
  /\ token = NoLexeme
  /\ dynList = dyn_list_new
  /\ elems = <<>>
  /\ hashTable = hash_table_init
  /\ src = <<TEOF>>
  /\ objects = ScriptObjects
  /\ parser = InitParser
  /\ heap = [i \in 1..Len(objects) |-> Len(objects) + 1 - i]
  /\ stack = <<>>
  /\ sp = 0
  /\ frames = <<>>
  /\ fp = 0
  /\ globals = <<>>
  /\ result = 0
  /\ out = <<>>
  /\ effects = {}

\* the memory the call reads: the source, and past it some bytes
Readable ==
  IF lexer.index < Len(lexer.input) THEN {lexer.input}
  ELSE {lexer.input \o after : after \in BytesAfter}

\* one call of lexer_next_token
LexerNextToken ==
  /\ pc = "lex"
  /\ lexer.index <= NulAt(lexer.input) + MaxPast
  /\ \E memory \in Readable :
       LET got == lexer_next_token([lexer EXCEPT !.input = memory])
       IN /\ lexer' = got.lexer
          /\ token' = got.token
          /\ pc' = IF got.st = "ok" THEN "lex" ELSE "fatal"
  /\ UNCHANGED <<dynList, elems, hashTable, src, parser, objects, heap, stack,
                 sp, frames, fp, globals, result, out, effects>>

LexNext == LexerNextToken

LexSpec == LexInit /\ [][LexNext]_vars

(***************************************************************************)
(* The binary opcodes on every pair of operands.  The compiler admits only *)
(* Numbers as operands, interpret() takes any block: each script pushes    *)
(* two constants, applies one binary opcode and prints the result.         *)
(***************************************************************************)
\* a value of every variant; the Obj is the name string of the script
OperandValues ==
  {value_new_null, value_new_boolean(TRUE), value_new_boolean(FALSE),
   value_new_number(0), value_new_number(1), value_new_number(0 - 2),
   value_new_object(1)}

\* CONSTANT a; CONSTANT b; op; PRINT; RETURN
OperandScript(op, a, b) ==
  AssembledScript(<<OP_CONSTANT, 0, OP_CONSTANT, 1, op, OP_PRINT, OP_RETURN>>,
                  <<a, b>>, <<>>)

OperandScripts ==
  {OperandScript(op, a, b) : op \in BinaryOps, a \in OperandValues,
                             b \in OperandValues}

BinaryInit ==
  /\ src = <<TEOF>>
  /\ pc = "parsed"
  /\ objects \in OperandScripts
  /\ parser = InitParser
  /\ lexer = lexer_init(<<NUL>>)
  /\ token = NoLexeme
  /\ dynList = dyn_list_new
  /\ elems = <<>>
  /\ hashTable = hash_table_init
  /\ heap = <<2, 1>>
  /\ stack = <<>>
  /\ sp = 0
  /\ frames = <<>>
  /\ fp = 0
  /\ globals = <<>>
  /\ result = 0
  /\ out = <<>>
  /\ effects = {}

BinaryNext ==
  \/ InterpretStart
  \/ OpConstant
  \/ OpBinary
  \/ OpPrint
  \/ OpReturn

BinarySpec == BinaryInit /\ [][BinaryNext]_vars

(***************************************************************************)
(* The hash table under a client that sets and deletes keys.  Seven keys   *)
(* fill a table of capacity 8 beyond the maximal load, so that the table   *)
(* doubles; several of them meet at one index.                             *)
(***************************************************************************)
TableKeys ==
  {<<"a">>, <<"q">>, <<"i">>, <<"y">>, <<"x">>, <<"a", "b", "s">>,
   <<"w", "l", "n">>}

\* the values of the calls checked, and the one the client stores on its way
TableValues == {value_new_number(1), value_new_boolean(TRUE)}
StoredValues == {value_new_number(1)}

TableInit ==
  /\ pc = "table"
  /\ dynList = dyn_list_new
  /\ elems = <<>>
  /\ hashTable = hash_table_init
  /\ lexer = lexer_init(<<NUL>>)
  /\ token = NoLexeme
  /\ src = <<TEOF>>
  /\ objects = ScriptObjects
  /\ parser = InitParser
  /\ heap = <<2, 1>>
  /\ stack = <<>>
  /\ sp = 0
  /\ frames = <<>>
  /\ fp = 0
  /\ globals = <<>>
  /\ result = 0
  /\ out = <<>>
  /\ effects = {}

TableRest ==
  UNCHANGED <<pc, dynList, elems, lexer, token, src, parser, objects, heap, stack, sp, frames,
              fp, globals, result, out, effects>>

\* one call of hash_table_set
TableSet ==
  /\ pc = "table"
  /\ \E key \in TableKeys, value \in StoredValues :
       hashTable' = HashTableSet(hashTable, key, value).table
  /\ TableRest

\* one call of hash_table_delete
TableDelete ==
  /\ pc = "table"
  /\ \E key \in TableKeys :
       hashTable' = hash_table_delete(hashTable, key).table
  /\ TableRest

TableNext == TableSet \/ TableDelete

TableSpec == TableInit /\ [][TableNext]_vars

(***************************************************************************)
(* Structs, lists and calls of every kind of value.  The compiler of src/  *)
(* emits none of these, interpret() takes any block: the blocks here are   *)
(* assembled over one pool of constants.  The objects are the script, a    *)
(* struct template P with the first n of the field names, the name         *)
(* strings, and a function f of one parameter.                             *)
(***************************************************************************)
\* the most fields of the template and the most values a script pushes
MaxFields == 2
MaxArgs == 3

FieldNamePool == <<"x", "y", "z", "add", "size">>

RECURSIVE TemplateFields(_)
\* the fields of a template: the i-th name declared has the ordinal i - 1
TemplateFields(n) ==
  IF n = 0 THEN hash_table_init
  ELSE HashTableSet(TemplateFields(n - 1), Characters(FieldNamePool[n]),
                    value_new_number(n - 1)).table

\* the constants of the assembled blocks, from index 0 on
ObjectConstants ==
  <<value_new_object(4), value_new_number(3), value_new_number(4),
    value_new_boolean(TRUE), value_new_number(7), value_new_object(5),
    value_new_object(6), value_new_object(7), value_new_object(8),
    value_new_object(9), value_new_number(0), value_new_number(1),
    value_new_number(2), value_new_number(0 - 1), value_new_null,
    value_new_object(1), value_new_object(12), value_new_object(10)>>

\* the objects of a block with the given code and a template of n fields
ObjectScript(n, opcodes) ==
  <<PString("script"),
    [PFunction(1, value_new_null) EXCEPT !.opcodes = opcodes,
                                         !.constants = ObjectConstants],
    PString("P"),
    [PStructTemplate(3) EXCEPT !.fields = TemplateFields(n)]>>
  \o [i \in 1..Len(FieldNamePool) |-> PString(FieldNamePool[i])]
  \o <<PString("abs"), PString("f"),
       [PFunction(11, value_new_null) EXCEPT
          !.opcodes = <<OP_LOCAL_GET, 0, OP_RETURN>>, !.arity = 1]>>

\* CONSTANT k, and CONSTANT k for every k of a list
Push(k) == <<OP_CONSTANT, k>>

RECURSIVE PushAll(_)
PushAll(ks) ==
  IF ks = <<>> THEN <<>> ELSE Push(ks[1]) \o PushAll(Tail(ks))

\* up to MaxArgs of the constants 3 and 4
ArgLists == UNION {[1..k -> {1, 2}] : k \in 0..MaxArgs}

\* nothing, or DUPE; CONSTANT 7; CONSTANT name; FIELD_SET
SetOptions ==
  {<<>>} \cup {<<OP_DUPE>> \o Push(4) \o Push(f) \o <<OP_FIELD_SET>> :
                 f \in {5, 7}}

\* P(args), an optional field assignment, print of a field
StructCodes ==
  {Push(0) \o PushAll(args) \o <<OP_CALL, Len(args)>> \o set \o Push(g)
     \o <<OP_FIELD_GET, OP_PRINT, OP_RETURN>> :
     args \in ArgLists, set \in SetOptions, g \in {5, 6, 7}}

\* values, a count, LIST, an index, INDEX, print
ListCodes ==
  {PushAll(args) \o Push(c) \o <<OP_LIST>> \o Push(i)
     \o <<OP_INDEX, OP_PRINT, OP_RETURN>> :
     args \in ArgLists, c \in {10, 11, 12, 1}, i \in {13, 10, 11, 12, 1, 3}}

\* a callee of every kind, values, CALL argc, print
CallCodes ==
  {Push(callee) \o PushAll(args) \o <<OP_CALL, argc, OP_PRINT, OP_RETURN>> :
     callee \in {0, 1, 3, 14, 15, 16}, args \in ArgLists, argc \in 0..MaxArgs}

\* the builtin abs as the callee, and a list and its method as the callee
OtherCallCodes ==
  {Push(17) \o <<OP_GLOBAL_GET>> \o PushAll(args)
     \o <<OP_CALL, argc, OP_PRINT, OP_RETURN>> :
     args \in ArgLists, argc \in 0..MaxArgs}
  \cup {Push(10) \o <<OP_LIST, OP_CALL, 0, OP_RETURN>>,
        Push(10) \o <<OP_LIST>> \o Push(9)
          \o <<OP_FIELD_GET, OP_PRINT, OP_RETURN>>,
        Push(10) \o <<OP_LIST>> \o Push(5)
          \o <<OP_FIELD_GET, OP_PRINT, OP_RETURN>>}

ObjectCodes == StructCodes \cup ListCodes \cup CallCodes \cup OtherCallCodes

ObjectInit ==
  /\ src = <<TEOF>>
  /\ pc = "parsed"
  /\ \E n \in 0..MaxFields, code \in ObjectCodes :
       objects = ObjectScript(n, code)
  /\ parser = InitParser
  /\ lexer = lexer_init(<<NUL>>)
  /\ token = NoLexeme
  /\ dynList = dyn_list_new
  /\ elems = <<>>
  /\ hashTable = hash_table_init
  /\ heap = [i \in 1..Len(objects) |-> Len(objects) + 1 - i]
  /\ stack = <<>>
  /\ sp = 0
  /\ frames = <<>>
  /\ fp = 0
  /\ globals = <<>>
  /\ result = 0
  /\ out = <<>>
  /\ effects = {}

ObjectNext ==
  \/ InterpretStart
  \/ OpConstant
  \/ OpDupe
  \/ OpGlobalGet
  \/ OpLocalGet
  \/ OpCall
  \/ OpFieldGet
  \/ OpFieldSet
  \/ OpList
  \/ OpIndex
  \/ OpPrint
  \/ OpReturn

ObjectSpec == ObjectInit /\ [][ObjectNext]_vars

(***************************************************************************)
(* The dynamic list under a client that adds, inserts, removes, sets and   *)
(* clears.  elems is the sequence the client has built: what the calls     *)
(* mean for a sequence.                                                    *)
(***************************************************************************)
\* the client keeps at most MaxSize elements, and passes indices up to
\* MaxIndex
MaxSize == 9
MaxIndex == 1
Elements == {1, 2}

ListInit ==
  /\ pc = "list"
  /\ dynList = dyn_list_new
  /\ elems = <<>>
  /\ hashTable = hash_table_init
  /\ lexer = lexer_init(<<NUL>>)
  /\ token = NoLexeme
  /\ src = <<TEOF>>
  /\ objects = ScriptObjects
  /\ parser = InitParser
  /\ heap = <<2, 1>>
  /\ stack = <<>>
  /\ sp = 0
  /\ frames = <<>>
  /\ fp = 0
  /\ globals = <<>>
  /\ result = 0
  /\ out = <<>>
  /\ effects = {}

ListRest ==
  UNCHANGED <<pc, hashTable, lexer, token, src, parser, objects, heap, stack,
              sp, frames, fp, globals, result, out, effects>>

\* a sequence with x put before its element index, from 0
InsertAt(s, index, x) ==
  SubSeq(s, 1, index) \o <<x>> \o SubSeq(s, index + 1, Len(s))

\* a sequence without its element index, from 0
RemoveAt(s, index) == SubSeq(s, 1, index) \o SubSeq(s, index + 2, Len(s))

\* one call of dyn_list_add
ListAdd ==
  /\ pc = "list"
  /\ dynList.size < MaxSize
  /\ \E data \in Elements :
       /\ dynList' = dyn_list_add(dynList, data)
       /\ elems' = Append(elems, data)
  /\ ListRest

\* one call of dyn_list_insert
ListInsert ==
  /\ pc = "list"
  /\ dynList.size < MaxSize
  /\ \E index \in 0..MaxIndex, data \in Elements :
       /\ dynList' = dyn_list_insert(dynList, index, data)
       /\ elems' = IF index <= Len(elems) THEN InsertAt(elems, index, data)
                   ELSE elems
  /\ ListRest

\* one call of dyn_list_remove
ListRemove ==
  /\ pc = "list"
  /\ \E index \in 0..MaxIndex :
       /\ dynList' = dyn_list_remove(dynList, index)
       /\ elems' = IF index < Len(elems) THEN RemoveAt(elems, index)
                   ELSE elems
  /\ ListRest

\* one call of dyn_list_set
ListSet ==
  /\ pc = "list"
  /\ \E index \in 0..MaxIndex, data \in Elements :
       /\ dynList' = dyn_list_set(dynList, index, data)
       /\ elems' = IF index < Len(elems) THEN [elems EXCEPT ![index + 1] = data]
                   ELSE elems
  /\ ListRest

\* one call of dyn_list_clear
ListClear ==
  /\ pc = "list"
  /\ dynList' = dyn_list_clear(dynList)
  /\ elems' = <<>>
  /\ ListRest

ListNext == ListAdd \/ ListInsert \/ ListRemove \/ ListSet \/ ListClear

ListSpec == ListInit /\ [][ListNext]_vars

(***************************************************************************)
(* Properties of calls and returns.                                        *)
(***************************************************************************)

\* C1: when the RETURN of a called function has executed, the depth of the
\* caller's stack is the depth before the CALL minus argc: the callable and
\* its arguments are replaced by the return value alone.  frame.slots is the
\* depth at the CALL minus argc.
C1_ReturnRestoresCallerDepth ==
  [][(Dispatch(OP_RETURN) /\ fp > 1 /\ pc' = "run") => sp' = frame.slots]_vars

\* C2: a call of a function whose body has no return statement delivers
\* Null, however many locals the body declares: the program that prints the
\* call prints Null.
C2_NoReturnDeliversNull ==
  \A np \in 0..MaxParams, nl \in 0..MaxLocals :
    (src = FunctionSource(np, nl, "none") /\ pc = "done")
      => out = <<value_new_null>>

(***************************************************************************)
(* Properties of the stack effect of the opcodes.                          *)
(***************************************************************************)

\* C3 as stated: every opcode changes the depth of the stack by one fixed
\* amount, whatever the state: no opcode is observed with two effects.
C3_OneEffectPerOpcode ==
  \A e1, e2 \in effects : e1[1] = e2[1] => e1[2] = e2[2]

\* the opcodes of block.h other than LOCAL_SET, RETURN and CALL, whose effect
\* depends on the frame or on the callee, and FIELD_GET and FIELD_SET
FixedEffectOpcodes ==
  {OP_NOP, OP_POP, OP_DUPE, OP_SWAP, OP_EXIT, OP_PRINT, OP_GLOBAL_DEFINE,
   OP_GLOBAL_SET, OP_GLOBAL_GET, OP_LOCAL_GET, OP_NEGATE, OP_ADD, OP_SUB,
   OP_MUL, OP_DIV, OP_NOT, OP_LT, OP_GT, OP_LTE, OP_GTE, OP_EQ, OP_NEQ,
   OP_CONSTANT, OP_JUMP, OP_JUMP_BACK, OP_CJUMPF, OP_CJUMPT}

\* C3: each opcode other than LOCAL_SET, RETURN and CALL (the struct opcodes
\* apart) changes the depth of the stack by one fixed amount on every dispatch
\* that completes, and LOCAL_SET changes it by 0 (the value lies on the slot)
\* or by -1 (the value lies above the slot).
C3_OneEffectButLocalSetReturnCall ==
  /\ \A e1, e2 \in effects :
       (e1[1] = e2[1] /\ e1[1] \in FixedEffectOpcodes) => e1[2] = e2[2]
  /\ \A e \in effects : e[1] = OP_LOCAL_SET => e[2] \in {0, 0 - 1}

\* a run in which LOCAL_SET has initialised a slot and has overwritten one
C3_Witness ==
  /\ src \in OverwriteSources
  /\ {<<OP_LOCAL_SET, 0>>, <<OP_LOCAL_SET, 0 - 1>>} \subseteq effects

\* C4: when the code of `A && B;' or `A || B;' has run, just before the
\* trailing RETURN of the script, the stack holds one value, on both paths.
C4_LogicLeavesOneValue ==
  (src \in LogicSources /\ pc = "run" /\ fp = 1 /\ frame.ip = Size - 1)
    => sp = 1

(***************************************************************************)
(* Short circuit.  In `A OP f();' the right operand compiles to CONSTANT,  *)
(* GLOBAL_GET and CALL 0: the five bytes before the trailing RETURN.       *)
(***************************************************************************)
ShortCircuits ==
  src \in {SideEffectSource(FALSE, "TOKEN_AND"), SideEffectSource(TRUE, "TOKEN_OR")}

RightOperandBytes == (Size - 6)..(Size - 2)

\* C5: when A is false in `A && B', or true in `A || B', no opcode of B is
\* dispatched: the script never stands on a byte of B, f is never entered
\* and nothing is printed.
C5_ShortCircuitSkipsB ==
  (ShortCircuits /\ pc \in {"run", "done", "fatal", "crash"})
    => /\ fp <= 1
       /\ out = <<>>
       /\ pc = "run" => frame.ip \notin RightOperandBytes

\* a short-circuiting program has run to its end
C5_Witness == ShortCircuits /\ pc = "done"

(***************************************************************************)
(* Properties of the compiler's locals.                                    *)
(***************************************************************************)

\* C6: in every function of a script, the second as well as the first,
\* parameter i has the slot operand i, and LOCAL_GET i reads the i-th
\* argument: g, declared after f, compiles `return P_k;' to LOCAL_GET k-1 and
\* the program prints the k-th argument, true.
C6_ParameterSlots ==
  \A n1 \in 0..MaxParams, n2 \in 1..MaxParams, k \in 1..MaxParams :
    (k <= n2 /\ src = TwoFunctionSource(n1, n2, k))
      => /\ pc = "parsed" =>
              SubSeq(objects[parser.globals["g"].n].opcodes, 1, 2)
                = <<OP_LOCAL_GET, k - 1>>
         /\ pc = "done" => out = <<value_new_boolean(TRUE)>>

\* C7: when the compiler has left every scope, no local is left in the
\* table of locals.
C7_ScopeExitRemovesLocals ==
  (pc = "parse" /\ parser.scope = 0 /\ ~parser.had_error)
    => Len(parser.locals) = 0

\* C8: a declaration of a local is an error exactly when the name exists at
\* the current depth: a block that redeclares the names of the enclosing
\* block compiles without error, a block that declares a name twice does not.
C8_ShadowingAllowed ==
  /\ \A n1, n2 \in 1..MaxLocals :
       src = BlockSource(n1, n2, TRUE) => ~parser.had_error
  /\ (src = RedeclareSource /\ pc # "parse") => parser.had_error

(***************************************************************************)
(* Properties of the expression parser.                                    *)
(***************************************************************************)

\* the opcodes with which both comparisons precede the EQ
ComparisonsFirst ==
  <<OP_CONSTANT, 0, OP_CONSTANT, 1, OP_LT, OP_CONSTANT, 2, OP_CONSTANT, 3,
    OP_LT, OP_EQ, OP_PRINT, OP_RETURN>>

\* C9: operators apply by the ladder ASSIGNMENT < OR < AND < EQUALITY <
\* COMPARISON < TERM < FACTOR: `print 1 + 2 * 3;' prints 7 and in
\* `print 1 < 2 == 3 < 4;' both comparisons are compiled before the EQ.
C9_PrecedenceLadder ==
  /\ (src = ExpressionSource("TOKEN_PLUS", "TOKEN_STAR") /\ pc = "done")
       => out = <<value_new_number(7)>>
  /\ (src = ComparisonSource /\ pc = "parsed")
       => objects[parser.function].opcodes = ComparisonsFirst

\* C10: an `=' after an expression that is not assignable is reported as a
\* compile error and the compiler keeps running: `1 = 2; print 3;' and
\* `1 + 2 = 3; print 3;' are compiled to their end and rejected.
C10_AssignmentToValueIsReported ==
  (src \in {AssignLiteralSource, AssignSumSource} /\ pc # "parse")
    => pc = "rejected"

(***************************************************************************)
(* Properties of error reporting and of the end of compilation.            *)
(***************************************************************************)

\* C11: once parse_error has printed a diagnostic, had_error holds in every
\* later state of the compilation, and parse_script returns the function only
\* when no diagnostic was printed, NULL otherwise.
C11_ErrorsAreSticky ==
  /\ parser.errors > 0 => parser.had_error
  /\ pc \in {"parsed", "run", "done", "fatal"} => parser.errors = 0
  /\ pc = "rejected" => parser.errors > 0

\* the first statement is reported, the last one compiles, no program results
C11_Witness ==
  src = AssignSumSource /\ pc = "rejected" /\ parser.errors > 0

\* C12: parse_script terminates on every source: a block that is not closed
\* before EOF is reported as a parse error and the compilation ends with no
\* program.
C12_UnclosedBlockIsRejected ==
  (src = UnclosedBlockSource /\ pc # "parse") => pc = "rejected"

(***************************************************************************)
(* Properties of the bounds of the value stack and of the frame stack.     *)
(***************************************************************************)

\* the program interpreted is the assembled script
Interprets(script) ==
  src = <<TEOF>> /\ SubSeq(objects, 1, Len(script)) = script

\* C13 as stated: the value stack takes 256 values and the frame stack 256
\* frames: the push that fails in the loop of DUPEs finds 256 values, the
\* call that fails in the endless recursion finds 256 frames.
C13_StacksHold256 ==
  /\ (Interprets(DupeLoopScript) /\ pc = "fatal") => sp = 256
  /\ (src = RecursionSource /\ pc = "fatal") => fp = 256

\* C13: the value stack takes STACK_SIZE = 255 values and the frame stack
\* MAX_FRAMES = 255 frames: a push succeeds whenever fewer entries are
\* present and is fatal only when 255 entries are present.
C13_StacksHold255 ==
  /\ (Interprets(DupeLoopScript) /\ pc = "fatal") => sp = STACK_SIZE
  /\ (src = RecursionSource /\ pc = "fatal") => fp = MAX_FRAMES

\* the loop of DUPEs has filled the stack and the next push was fatal
C13_Witness ==
  Interprets(DupeLoopScript) /\ pc = "fatal" /\ sp = STACK_SIZE

\* C14: in every state of the interpreter 0 <= sp <= STACK_SIZE and
\* 0 <= fp <= MAX_FRAMES; a push on a full stack, a pop on an empty one and
\* a call on a full frame stack end the program and leave sp and fp in range.
C14_StackPointersInRange ==
  /\ 0 <= sp /\ sp <= STACK_SIZE
  /\ 0 <= fp /\ fp <= MAX_FRAMES
  /\ Len(stack) <= STACK_SIZE
  /\ Len(frames) <= MAX_FRAMES

\* the endless recursion has filled the frame stack and the call was fatal
C14_Witness ==
  src = RecursionSource /\ pc = "fatal" /\ fp = MAX_FRAMES

(***************************************************************************)
(* Properties of the constant pool.                                        *)
(***************************************************************************)

\* the constant that the last CONSTANT of the script, the one before the
\* final PRINT and RETURN, names
LastConstantNamed ==
  LET script == objects[parser.function]
  IN script.constants[script.opcodes[Len(script.opcodes) - 2] + 1]

\* C15: block_new_constant returns an index k such that constants[k] is the
\* value just added, never an index that wraps onto an earlier constant: in
\* a script of 257 literals that compiles, the last CONSTANT names the last
\* literal, 7.
C15_ConstantIndexNamesConstant ==
  (src = ManyConstantsSource /\ pc = "parsed")
    => LastConstantNamed = value_new_number(7)

(***************************************************************************)
(* Properties of the jumps.                                                *)
(***************************************************************************)
JumpOpcodes == {OP_JUMP, OP_JUMP_BACK, OP_CJUMPF, OP_CJUMPT}

\* block.c block_print_opcode: the number of bytes of the instruction
InstructionSize(op) ==
  IF op \in {OP_CONSTANT, OP_CALL, OP_LOCAL_GET, OP_LOCAL_SET} THEN 2
  ELSE IF op \in JumpOpcodes THEN 3
  ELSE 1

\* the longest run of bytes that is decoded instruction by instruction
MaxRun == 32

RECURSIVE Decode(_, _, _, _), DecodeRun(_, _, _)
\* the instructions of the bytes lo .. hi - 1 when the first `skip' of them
\* are operands of the instruction before: the offsets at which instructions
\* start, in their order, and the operand bytes that are still to come after hi - 1
DecodeJoin(left, right) ==
  [starts |-> left.starts \o right.starts, skip |-> right.skip]

DecodeRight(code, mid, hi, left) ==
  DecodeJoin(left, Decode(code, mid, hi, left.skip))

DecodeRun(code, i, hi) ==
  IF i >= hi THEN [starts |-> <<>>, skip |-> i - hi]
  ELSE DecodeJoin([starts |-> <<i>>],
                  DecodeRun(code, i + InstructionSize(code[i + 1]), hi))

Decode(code, lo, hi, skip) ==
  IF hi - lo <= MaxRun THEN DecodeRun(code, lo + skip, hi)
  ELSE DecodeRight(code, (lo + hi) \div 2, hi,
                   Decode(code, lo, (lo + hi) \div 2, skip))

\* block.c block_print: the offsets at which the instructions of a block start
InstructionStarts(code) ==
  LET starts == Decode(code, 0, Len(code), 0).starts
  IN {starts[k] : k \in 1..Len(starts)}

\* the operand of the jump at offset i, and the ip to which the interpreter
\* takes it
JumpOperand(code, i) == code[i + 2] * 256 + code[i + 3]
JumpTarget(code, i) ==
  IF code[i + 1] = OP_JUMP_BACK THEN i + 2 - JumpOperand(code, i)
  ELSE i + 2 + JumpOperand(code, i)

\* the blocks of the compiled functions
CompiledBlocks ==
  {objects[i].opcodes : i \in {j \in 1..Len(objects) :
                                 objects[j].type = "P_OBJ_FUNCTION"}}

\* a jump opcode is dispatched, its jump is taken (CJUMPF pops false, CJUMPT
\* pops true) and the interpreter goes on
JumpTaken ==
  /\ Running
  /\ CurOp \in JumpOpcodes
  /\ CurOp = OP_CJUMPF
       => (sp > 0 /\ StackAt(stack, sp - 1) = value_new_boolean(FALSE))
  /\ CurOp = OP_CJUMPT
       => (sp > 0 /\ StackAt(stack, sp - 1) = value_new_boolean(TRUE))
  /\ pc' = "run"

\* C17 as stated: a taken JUMP, CJUMPF or CJUMPT with operand off sets ip to
\* the offset of the byte after the two operand bytes plus off, JUMP_BACK to
\* that offset minus off.
C17_JumpsFromByteAfterOperands ==
  [][JumpTaken =>
       frames'[fp].ip = IF CurOp = OP_JUMP_BACK THEN frame.ip + 3 - Offset16
                        ELSE frame.ip + 3 + Offset16]_vars

\* C17: a taken JUMP, CJUMPF or CJUMPT with operand off sets ip to the offset
\* of the second operand byte plus off, JUMP_BACK to that offset minus off.
C17_JumpsFromSecondOperand ==
  [][JumpTaken =>
       frames'[fp].ip = IF CurOp = OP_JUMP_BACK THEN frame.ip + 2 - Offset16
                        ELSE frame.ip + 2 + Offset16]_vars

\* a for loop has run to its end: its JUMP, both JUMP_BACK and, when the
\* condition turned false, its CJUMPF were taken
C17_Witness ==
  /\ src = ForSource
  /\ pc = "done"
  /\ {OP_JUMP, OP_JUMP_BACK, OP_CJUMPF} \subseteq {e[1] : e \in effects}

\* the block of the script and, in a script that is one construct, the
\* instruction after the construct (the trailing RETURN) and the place to
\* which its loop goes back (in a for loop with an empty post expression, the
\* JUMP_BACK to the condition)
ScriptCode == objects[2].opcodes
ExitTarget == Len(ScriptCode) - 1
LoopStart == IF ScriptCode[6] = OP_JUMP THEN 8 ELSE 0

\* C16: in a successfully compiled block the operand of every jump is the
\* true distance to its target; a jump of more than 65535 bytes is rejected,
\* never clamped or truncated.
C16_LongJumpsAreRejected ==
  (pc = "parsed" /\ src = RestOfSource)
    => \A i \in InstructionStarts(ScriptCode) :
         /\ ScriptCode[i + 1] \in {OP_CJUMPF, OP_CJUMPT}
              => JumpOperand(ScriptCode, i) = ExitTarget - (i + 2)
         /\ (ScriptCode[i + 1] = OP_JUMP_BACK /\ i > LoopStart)
              => JumpOperand(ScriptCode, i) = (i + 2) - LoopStart

\* C18: in every block of a successful compilation each jump is patched and
\* its target, as the interpreter computes it, is the first byte of an
\* instruction of the block.
C18_JumpsLandOnInstructions ==
  (pc = "parsed" /\ src # <<TEOF>>)
    => \A code \in CompiledBlocks :
         \A i \in InstructionStarts(code) :
           code[i + 1] \in JumpOpcodes
             => /\ JumpOperand(code, i) # UINT16_MAX
                /\ JumpTarget(code, i) \in InstructionStarts(code)

(***************************************************************************)
(* Properties of the lexer.                                                *)
(***************************************************************************)
\* C19: after lexer_next_token has returned an EOF token every later call
\* returns an EOF token again, and the cursor is never moved past the
\* terminating NUL of the source.
C19_EofIsRepeated ==
  [][/\ lexer'.index <= NulAt(lexer'.input)
     /\ token.type = "TOKEN_EOF" => token'.type = "TOKEN_EOF"]_vars

\* the 14 reserved words and their tokens
ReservedWords ==
  <<[word |-> <<"b", "o", "o", "l">>, type |-> "TOKEN_BOOL"],
    [word |-> <<"e", "l", "s", "e">>, type |-> "TOKEN_ELSE"],
    [word |-> <<"e", "x", "i", "t">>, type |-> "TOKEN_EXIT"],
    [word |-> <<"f", "a", "l", "s", "e">>, type |-> "TOKEN_FALSE"],
    [word |-> <<"f", "o", "r">>, type |-> "TOKEN_FOR"],
    [word |-> <<"f", "u", "n">>, type |-> "TOKEN_FUN"],
    [word |-> <<"i", "f">>, type |-> "TOKEN_IF"],
    [word |-> <<"l", "e", "t">>, type |-> "TOKEN_LET"],
    [word |-> <<"n", "u", "l", "l">>, type |-> "TOKEN_NULL"],
    [word |-> <<"p", "r", "i", "n", "t">>, type |-> "TOKEN_PRINT"],
    [word |-> <<"r", "e", "t", "u", "r", "n">>, type |-> "TOKEN_RETURN"],
    [word |-> <<"s", "t", "r", "u", "c", "t">>, type |-> "TOKEN_STRUCT"],
    [word |-> <<"t", "r", "u", "e">>, type |-> "TOKEN_TRUE"],
    [word |-> <<"w", "h", "i", "l", "e">>, type |-> "TOKEN_WHILE"]>>

\* the token of a lexeme that is a reserved word as a whole, IDENTIFIER for
\* every other lexeme
ReservedType(lexeme) ==
  LET hits == {k \in 1..Len(ReservedWords) : ReservedWords[k].word = lexeme}
  IN IF hits = {} THEN "TOKEN_IDENTIFIER"
     ELSE ReservedWords[CHOOSE k \in hits : TRUE].type

\* the characters of the token returned last
Lexeme == SubSeq(lexer.input, token.start + 1, token.start + token.length)

\* C20: a lexeme that starts with a letter is a reserved-word token if and
\* only if the whole lexeme is one of the 14 reserved words, and IDENTIFIER
\* otherwise.
C20_ReservedWordsAreWholeLexemes ==
  (pc = "lex" /\ token.length > 0 /\ isalpha(lexer.input[token.start + 1]))
    => token.type = ReservedType(Lexeme)

(***************************************************************************)
(* Properties of the allocation list.                                      *)
(***************************************************************************)

\* the objects reachable from interpreter.heap through the next pointers
Reachable == {heap[i] : i \in 1..Len(heap)}

\* C21: every heap object allocated at compile time or at run time stays
\* reachable from the head of the allocation list until the final teardown:
\* no operation, the start of the interpreter included, takes objects off
\* the list or resets its head.
C21_ObjectsStayReachable ==
  pc \in {"parse", "parsed", "rejected", "run", "done"}
    => \A id \in DOMAIN objects : id \in Reachable

(***************************************************************************)
(* Properties of the binary opcodes.                                       *)
(***************************************************************************)

\* the operands of the binary opcode about to run: a below b
OperandA == StackAt(stack, sp - 2)
OperandB == StackAt(stack, sp - 1)
BothNumbers == OperandA.t = "num" /\ OperandB.t = "num"

\* what opcode op pushes on the operands at hand
Pushed(op) == StackAt(binary(Machine, op).stack, sp - 2)

\* C22: for every pair of values a, b, NEQ pushes the negation of what EQ
\* pushes; EQ pushes false whenever a and b are of different variants and
\* pushes (a = b) when both are Numbers; neither opcode is ever fatal.
C22_EqAndNeq ==
  [][(Running /\ CurOp \in {OP_EQ, OP_NEQ} /\ sp >= 2)
       => /\ pc' = "run"
          /\ sp' = sp - 1
          /\ StackAt(stack', sp' - 1) = Pushed(CurOp)
          /\ Pushed(OP_NEQ) = value_new_boolean(~value_is_truthy(Pushed(OP_EQ)))
          /\ OperandA.t # OperandB.t => Pushed(OP_EQ) = value_new_boolean(FALSE)
          /\ BothNumbers
               => Pushed(OP_EQ) = value_new_boolean(OperandA.n = OperandB.n)]_vars

\* NEQ has run on operands of different variants and pushed true
C22_Witness ==
  /\ pc = "run"
  /\ frame.ip = 5
  /\ ByteAt(4) = OP_NEQ
  /\ Block.constants[1].t # Block.constants[2].t
  /\ sp = 1
  /\ StackAt(stack, 0) = value_new_boolean(TRUE)

ArithmeticOps ==
  {OP_ADD, OP_SUB, OP_MUL, OP_DIV, OP_LT, OP_GT, OP_LTE, OP_GTE}

\* C23: ADD, SUB, MUL, DIV, LT, GT, LTE and GTE are fatal whenever either
\* operand is not a Number, and DIV is fatal when the divisor is 0; in these
\* cases no result is pushed (the two operands are popped and nothing is
\* written) and no further opcode is dispatched.
C23_ArithmeticNeedsNumbers ==
  [][/\ (/\ Running
         /\ CurOp \in ArithmeticOps
         /\ sp >= 2
         /\ \/ ~BothNumbers
            \/ CurOp = OP_DIV /\ OperandB.n = 0)
          => /\ pc' = "fatal"
             /\ sp' = sp - 2
             /\ stack' = stack
             /\ out' = out
     /\ pc = "fatal" => pc' = "fatal" /\ effects' = effects /\ out' = out]_vars

\* DIV has stopped the program on a zero divisor
C23_Witness ==
  /\ pc = "fatal"
  /\ ByteAt(frame.ip) = OP_DIV
  /\ Block.constants[1].t = "num"
  /\ Block.constants[2] = value_new_number(0)
  /\ sp = 0

(***************************************************************************)
(* Properties of the globals.                                              *)
(***************************************************************************)

\* the name GLOBAL_GET is about to look up
GlobalName == objects[StackAt(stack, sp - 1).n].value

\* C24: GLOBAL_GET of a name that has no binding in globals terminates the
\* program with a fatal diagnostic; it never pushes a value and never
\* continues execution.
C24_UndefinedGlobalIsFatal ==
  [][(/\ Dispatch(OP_GLOBAL_GET)
      /\ sp >= 1
      /\ IsString(StackAt(stack, sp - 1))
      /\ GlobalName \notin DOMAIN globals)
       => pc' = "fatal" /\ sp' < sp]_vars

(***************************************************************************)
(* Properties of the exit code.                                            *)
(***************************************************************************)

\* main.c main: the status of the process once the run has ended.  exit(1)
\* ends it with 1; otherwise main reaches its last statement, return 0,
\* whatever parse() and interpret() returned.
ExitCode == IF pc = "fatal" THEN 1 ELSE 0

\* an EXIT was dispatched in this run
ExitExecuted == \E e \in effects : e[1] = OP_EXIT

\* C25: EXIT pops the top value and halts at once, and the popped value cast
\* to int is the exit code of the run; a run that executes no EXIT and hits
\* no fatal error exits with code 0.
C25_ExitCodeIsExitOperand ==
  pc = "done" => ExitCode = (IF ExitExecuted THEN result ELSE 0)

(***************************************************************************)
(* Properties of the hash table.                                           *)
(***************************************************************************)

\* what hash_table_get yields for every key
Lookup(T) == [k \in TableKeys |-> hash_table_get(T, k)]

\* C26: after hash_table_delete(k) returns true, hash_table_get(k) reports k
\* as absent (NULL) until k is set again, and the lookup results of all
\* other keys are unchanged.
C26_DeletedKeyIsAbsent ==
  (pc = "table")
    => LET before == Lookup(hashTable)
       IN \A k \in TableKeys :
            LET deleted == hash_table_delete(hashTable, k)
            IN deleted.ret
                 => Lookup(deleted.table) = [before EXCEPT ![k] = NULL]

\* C27: after hash_table_set(k, v), hash_table_get(k) yields v, and for
\* every other key k' hash_table_get(k') yields what it yielded before the
\* set, also when the set doubles the capacity.
C27_SetThenGet ==
  (pc = "table")
    => LET before == Lookup(hashTable)
       IN \A k \in TableKeys, v \in TableValues :
            Lookup(HashTableSet(hashTable, k, v).table)
              = [before EXCEPT ![k] = Ptr(v)]

\* the table has doubled from 8 to 16 and still holds every key, two of
\* them in one chain
C27_Witness ==
  /\ pc = "table"
  /\ hashTable.capacity = 16
  /\ hashTable.count = Cardinality(TableKeys)
  /\ \A k \in TableKeys : hash_table_get(hashTable, k) \in
                            {Ptr(v) : v \in StoredValues}
  /\ \E k \in TableKeys :
       hashTable.entries[Mask(hashString(k), 16) + 1].key # Ptr(k)

(***************************************************************************)
(* Properties of the local slots.                                          *)
(***************************************************************************)

\* the stack index of the slot the LOCAL_SET or LOCAL_GET at ip names
SlotAt == frame.slots + ByteAt(frame.ip + 1)

\* the instruction at offset i of the running block is LOCAL_GET of slot
LocalGetAt(i, slot) ==
  /\ i + 1 < Size
  /\ ByteAt(i) = OP_LOCAL_GET
  /\ ByteAt(i + 1) = slot

\* C28: for any in-scope local slot L, after LOCAL_SET L executes with value
\* v on top of the stack, an immediately following LOCAL_GET L pushes v, and
\* that LOCAL_SET changed no local slot other than L.  LOCAL_SET leaves v in
\* slot L and every other entry of the stack as it was, and LOCAL_GET L
\* pushes what slot L holds.
C28_LocalSetThenGet ==
  [][/\ (Dispatch(OP_LOCAL_SET) /\ HasOperands(1) /\ sp >= 1 /\ SlotAt < sp)
          => /\ pc' = "run"
             /\ frames'[fp].ip = frame.ip + 2
             /\ StackAt(stack', SlotAt) = StackAt(stack, sp - 1)
             /\ \A i \in 0..(sp - 1) :
                  i # SlotAt => StackAt(stack', i) = StackAt(stack, i)
             /\ sp' > SlotAt
     /\ (Dispatch(OP_LOCAL_GET) /\ HasOperands(1) /\ SlotAt < sp
           /\ sp < STACK_SIZE)
          => /\ pc' = "run"
             /\ sp' = sp + 1
             /\ StackAt(stack', sp) = StackAt(stack, SlotAt)]_vars

\* in a called function, LOCAL_SET L and then LOCAL_GET L have run: the top
\* of the stack is the value of slot L, which lies below it
C28_Witness ==
  /\ pc = "run"
  /\ fp > 1
  /\ frame.slots > 0
  /\ frame.ip >= 4
  /\ ByteAt(frame.ip - 4) = OP_LOCAL_SET
  /\ LocalGetAt(frame.ip - 2, ByteAt(frame.ip - 3))
  /\ sp >= frame.slots + ByteAt(frame.ip - 3) + 2
  /\ StackAt(stack, sp - 1) = StackAt(stack, frame.slots + ByteAt(frame.ip - 3))

(***************************************************************************)
(* Properties of the loops.  The script is one loop with the condition at  *)
(* offset 0 and its CJUMPF at offset 2; the last instruction of the loop   *)
(* is the JUMP_BACK before the trailing RETURN.                            *)
(***************************************************************************)
LastJumpBack == Len(ScriptCode) - 4
IsForLoop == ScriptCode[6] = OP_JUMP
IsWhileLoop ==
  ScriptCode[6] # OP_JUMP /\ ScriptCode[LastJumpBack + 1] = OP_JUMP_BACK

\* C29: for `for (INIT; COND; POST) BODY' the order at run time is INIT once,
\* then COND, BODY, POST, COND, ...: when COND is true its JUMP (offset 5)
\* goes to the first opcode of BODY (offset 11), never to POST; the JUMP_BACK
\* after BODY goes to the first opcode of POST (offset 8) and the one after
\* POST to COND (offset 0); when COND is false the CJUMPF lands on the first
\* opcode after the final JUMP_BACK, so that BODY never runs after COND was
\* false.
C29_ForLoopOrder ==
  (pc = "parsed" /\ src = RestOfSource /\ IsForLoop)
    => /\ ScriptCode[LastJumpBack + 1] = OP_JUMP_BACK
       /\ JumpTarget(ScriptCode, 5) = 11
       /\ JumpTarget(ScriptCode, LastJumpBack) = 8
       /\ JumpTarget(ScriptCode, 8) = 0
       /\ JumpTarget(ScriptCode, 2) = LastJumpBack + 3

\* C30: for `while (COND) BODY', when COND is false the CJUMPF lands on the
\* first opcode after the JUMP_BACK of the loop, and the JUMP_BACK after BODY
\* lands on the first opcode of COND, so that COND is evaluated again before
\* every iteration and BODY never runs after COND was false.
C30_WhileLoopOrder ==
  (pc = "parsed" /\ src = RestOfSource /\ IsWhileLoop)
    => /\ JumpTarget(ScriptCode, 2) = LastJumpBack + 3
       /\ JumpTarget(ScriptCode, LastJumpBack) = 0

(***************************************************************************)
(* C31: calls and returns of user functions.                               *)
(***************************************************************************)
\* the value CALL finds below its arguments
Callee == peek_stack(Machine, ByteAt(frame.ip + 1))

\* the dispatch is a CALL of a Function whose arity is the operand
CallsFunction ==
  /\ Dispatch(OP_CALL)
  /\ HasOperands(1)
  /\ Callee.st = "ok"
  /\ Callee.val.t = "obj"
  /\ objects[Callee.val.n].type = "P_OBJ_FUNCTION"
  /\ objects[Callee.val.n].arity = ByteAt(frame.ip + 1)

\* one frame with ip = 0 is pushed, the caller's frame is left at the byte
\* after the CALL operand, the value stack is untouched
PushesOneFrame ==
  /\ pc' = "run"
  /\ fp' = fp + 1
  /\ Len(frames') = fp'
  /\ frames'[fp'].ip = 0
  /\ frames'[fp'].function = Callee.val.n
  /\ frames'[fp] = [frame EXCEPT !.ip = frame.ip + 2]
  /\ SubSeq(frames', 1, fp - 1) = SubSeq(frames, 1, fp - 1)
  /\ stack' = stack
  /\ sp' = sp

\* the frame on top is popped and the frame below runs again, at the byte
\* after the operand of the CALL it executed
ReturnsToCaller ==
  /\ pc' = "run"
  /\ fp' = fp - 1
  /\ frames' = SubSeq(frames, 1, fp - 1)
  /\ frames'[fp'].ip >= 2
  /\ objects[frames'[fp'].function].opcodes[frames'[fp'].ip - 1] = OP_CALL

\* RETURN in a called frame, and RETURN in the outermost frame
ReturnSteps ==
  /\ Dispatch(OP_RETURN) /\ fp > 1 => ReturnsToCaller
  /\ Dispatch(OP_RETURN) /\ fp = 1 => pc' = "done" /\ result' = 0

\* C31 (as stated): every CALL of a Function with matching arity pushes
\* exactly one frame with ip = 0 and leaves the value stack unchanged; the
\* matching RETURN pops that frame and the caller resumes right after the
\* CALL operand; RETURN in the outermost frame ends with INTERPRET_OK
C31_CallPushesOneFrame ==
  [][(CallsFunction => PushesOneFrame) /\ ReturnSteps]_vars

\* C31 (amended): the same, for a CALL dispatched while fewer than MAX_FRAMES
\* frames are active; with MAX_FRAMES frames active the CALL is fatal and
\* pushes nothing
C31_CallBelowFrameLimit ==
  [][/\ CallsFunction /\ fp < MAX_FRAMES => PushesOneFrame
     /\ CallsFunction /\ fp = MAX_FRAMES =>
          pc' = "fatal" /\ fp' = fp /\ frames' = frames /\ sp' = sp
     /\ ReturnSteps]_vars

\* a function was called and has returned: the script runs again, right
\* after a CALL operand
C31_Witness ==
  /\ pc = "run"
  /\ fp = 1
  /\ <<OP_CALL, 0>> \in effects
  /\ \E d \in -2..1 : <<OP_RETURN, d>> \in effects
  /\ frame.ip >= 2
  /\ ByteAt(frame.ip - 2) = OP_CALL

(***************************************************************************)
(* C32: the call of a struct template.                                     *)
(***************************************************************************)
\* the dispatch is a CALL whose callee is a struct template
CallsTemplate ==
  /\ Dispatch(OP_CALL)
  /\ HasOperands(1)
  /\ Callee.st = "ok"
  /\ Callee.val.t = "obj"
  /\ objects[Callee.val.n].type = "P_OBJ_STRUCT_TEMPLATE"

\* the number of fields the template of the scripts declares
Declared == objects[4].fields.count

\* the value a CALL of argc arguments finds as its i-th argument, from 0
Argument(argc, i) == StackAt(stack, sp - argc + i)

\* the template and its n arguments are replaced by one new instance whose
\* field of ordinal i holds the i-th argument
BuildsInstance(n) ==
  LET new == StackAt(stack', sp' - 1)
  IN /\ pc' = "run"
     /\ sp' = sp - n
     /\ \A k \in 0..(sp' - 2) : StackAt(stack', k) = StackAt(stack, k)
     /\ new.t = "obj"
     /\ new.n \notin DOMAIN objects
     /\ new.n \in DOMAIN objects'
     /\ objects'[new.n].type = "P_OBJ_STRUCT_INSTANCE"
     /\ objects'[new.n].template = Callee.val.n
     /\ objects'[new.n].fields.count = n
     /\ \A i \in 0..(n - 1) :
          hash_table_get(objects'[new.n].fields,
                         Characters(FieldNamePool[i + 1]))
            = Ptr(Argument(n, i))

\* the receiver and the field name a FIELD_GET finds
Receiver == StackAt(stack, sp - 2)
FieldName == objects[StackAt(stack, sp - 1).n].value

\* the value the script pushed as the i-th argument of P(...), from 0
ScriptArgument(i) == Block.constants[ByteAt(3 + 2 * i) + 1]

\* FIELD_GET of a declared field on an instance no FIELD_SET has written
GetsDeclaredField(i) ==
  /\ Dispatch(OP_FIELD_GET)
  /\ sp >= 2
  /\ Receiver.t = "obj"
  /\ objects[Receiver.n].type = "P_OBJ_STRUCT_INSTANCE"
  /\ IsString(StackAt(stack, sp - 1))
  /\ FieldName = FieldNamePool[i + 1]
  /\ \A d \in -3..0 : <<OP_FIELD_SET, d>> \notin effects

\* C32: CALL argc on a struct template of n fields is fatal unless argc = n;
\* otherwise it replaces the template and the n arguments by one instance
\* whose field of ordinal i holds the i-th argument in push order, and
\* FIELD_GET of that field on the instance yields that argument
C32_TemplateCallBuildsInstance ==
  [][/\ CallsTemplate /\ ByteAt(frame.ip + 1) # Declared => pc' = "fatal"
     /\ CallsTemplate /\ ByteAt(frame.ip + 1) = Declared =>
          BuildsInstance(Declared)
     /\ \A i \in 0..(MaxFields - 1) :
          GetsDeclaredField(i) /\ i < Declared =>
            /\ pc' = "run"
            /\ sp' = sp - 1
            /\ StackAt(stack', sp' - 1) = ScriptArgument(i)]_vars

(***************************************************************************)
(* C33: LIST and INDEX.                                                    *)
(***************************************************************************)
\* the count a LIST finds on top of the stack, and the values below it
ListCount == StackAt(stack, sp - 1)

\* LIST with a count n that has n values below it
BuildsList ==
  /\ Dispatch(OP_LIST)
  /\ sp >= 1
  /\ ListCount.t = "num"
  /\ ListCount.n >= 0
  /\ ListCount.n <= sp - 1

\* the n values and the count are replaced by one new list whose element i
\* is the i-th of the values in push order
ListOfValues(n) ==
  LET new == StackAt(stack', sp' - 1)
  IN /\ pc' = "run"
     /\ sp' = sp - n
     /\ \A k \in 0..(sp' - 2) : StackAt(stack', k) = StackAt(stack, k)
     /\ new.t = "obj"
     /\ new.n \notin DOMAIN objects
     /\ new.n \in DOMAIN objects'
     /\ objects'[new.n].type = "P_OBJ_LIST"
     /\ objects'[new.n].count = n
     /\ Len(objects'[new.n].values) = n
     /\ \A i \in 0..(n - 1) :
          objects'[new.n].values[i + 1] = StackAt(stack, sp - 1 - n + i)

\* INDEX with a Number on top of a list
IndexesList ==
  /\ Dispatch(OP_INDEX)
  /\ sp >= 2
  /\ StackAt(stack, sp - 1).t = "num"
  /\ StackAt(stack, sp - 2).t = "obj"
  /\ objects[StackAt(stack, sp - 2).n].type = "P_OBJ_LIST"

IndexedList == objects[StackAt(stack, sp - 2).n]
Index == StackAt(stack, sp - 1).n

ArgCount == ByteAt(frame.ip + 1)

\* a value at depth argc that is no Function, Builtin or StructTemplate
NotCallable ==
  \/ Callee.val.t # "obj"
  \/ objects[Callee.val.n].type
       \notin {"P_OBJ_FUNCTION", "P_OBJ_BUILTIN", "P_OBJ_STRUCT_TEMPLATE"}

\* a callee whose arity is not argc
ArityDiffers ==
  /\ Callee.val.t = "obj"
  /\ \/ /\ objects[Callee.val.n].type \in {"P_OBJ_FUNCTION", "P_OBJ_BUILTIN"}
        /\ objects[Callee.val.n].arity # ArgCount
     \/ /\ objects[Callee.val.n].type = "P_OBJ_STRUCT_TEMPLATE"
        /\ objects[Callee.val.n].fields.count # ArgCount

\* a CALL that finds a value at depth argc, which it must refuse
RefusedCall ==
  /\ ByteAt(frame.ip) = OP_CALL
  /\ HasOperands(1)
  /\ Callee.st = "ok"
  /\ NotCallable \/ ArityDiffers

\* C34: CALL is fatal when the value at depth argc is not a Function, Builtin
\* or StructTemplate, and when argc differs from the callee's arity; no frame
\* is pushed, no builtin is invoked, no object is made and the value stack is
\* not modified
C34_BadCallsAreFatal ==
  [][Running /\ RefusedCall =>
       /\ pc' = "fatal"
       /\ fp' = fp
       /\ frames' = frames
       /\ stack' = stack
       /\ sp' = sp
       /\ out' = out
       /\ objects' = objects]_vars

\* the process has stopped at a CALL of f, a function of one parameter, with
\* another number of arguments
C34_Witness ==
  /\ pc = "fatal"
  /\ fp = 1
  /\ RefusedCall
  /\ Callee.val = value_new_object(12)
  /\ ArgCount # 1

(***************************************************************************)
(* C35: the shape of a hash table.                                         *)
(***************************************************************************)
RECURSIVE IsPowerOfTwoFrom8(_)
\* 8, 16, 32, ...
IsPowerOfTwoFrom8(c) ==
  c = 8 \/ (c > 8 /\ c % 2 = 0 /\ IsPowerOfTwoFrom8(c \div 2))

\* the indices of the entries with neither key nor value
FreeEntries(T) ==
  {i \in 1..T.capacity :
     T.entries[i].key = NULL /\ T.entries[i].value = NULL}

\* C35: the capacity is 0 or a power of two >= 8 and count <= 0.75 *
\* capacity, so that a non-empty table has an entry with neither key nor
\* value and every probe of findEntry ends
C35_TableShape ==
  /\ hashTable.capacity = 0 \/ IsPowerOfTwoFrom8(hashTable.capacity)
  /\ Len(hashTable.entries) = hashTable.capacity
  /\ 4 * hashTable.count <= 3 * hashTable.capacity
  /\ hashTable.count > 0 => FreeEntries(hashTable) # {}
  /\ hashTable.capacity > 0 =>
       \A k \in TableKeys :
         findEntry(hashTable.entries, hashTable.capacity, k) >= 0

\* a table that has doubled, holds seven keys, one of them deleted
C35_Witness ==
  /\ pc = "table"
  /\ hashTable.capacity = 16
  /\ hashTable.count = 7
  /\ Cardinality(FreeEntries(hashTable)) = 9
  /\ \E i \in 1..hashTable.capacity :
       hashTable.entries[i].value = Ptr(Tombstone)

(***************************************************************************)
(* C36: a global redeclared from its own value.                            *)
(***************************************************************************)
\* the value the first declaration of the script gives g
FirstValue == CHOOSE v \in BOOLEAN : src = RedeclareGlobalSource(v)

\* C36: while the initializer of a global declaration of NAME is evaluated,
\* the binding NAME had before is still visible: `bool g = V; bool g = g;
\* print g;' prints V
C36_InitializerSeesOldBinding ==
  pc = "done" /\ src \in RedeclareGlobalSources =>
    out = <<value_new_boolean(FirstValue)>>

(***************************************************************************)
(* C37: the fields of a struct instance.                                   *)
(***************************************************************************)
\* the keys of a table
KeysOf(T) == {T.entries[i].key : i \in 1..T.capacity} \ {NULL}

\* the dispatch is a FIELD_SET on an instance with a name that the template
\* of the instance does not declare
SetsUndeclaredField ==
  /\ Dispatch(OP_FIELD_SET)
  /\ sp >= 3
  /\ IsString(StackAt(stack, sp - 1))
  /\ StackAt(stack, sp - 3).t = "obj"
  /\ objects[StackAt(stack, sp - 3).n].type = "P_OBJ_STRUCT_INSTANCE"
  /\ Ptr(Characters(FieldName)) \notin
       KeysOf(objects[objects[StackAt(stack, sp - 3).n].template].fields)

\* C37: the field names of a struct instance are those of its template;
\* FIELD_SET with a name the template does not declare is fatal and adds no
\* field
C37_InstanceHasTemplateFields ==
  [][/\ SetsUndeclaredField => pc' = "fatal" /\ objects' = objects
     /\ \A id \in DOMAIN objects' :
          objects'[id].type = "P_OBJ_STRUCT_INSTANCE" =>
            KeysOf(objects'[id].fields)
              = KeysOf(objects'[objects'[id].template].fields)]_vars

(***************************************************************************)
(* C38: equality of a value with itself.                                   *)
(***************************************************************************)
\* C38: EQ is reflexive on every value: for two equal Bools, two Nulls or two
\* references to the same object, as for two equal Numbers, EQ pushes true
\* and NEQ pushes false
C38_EqIsReflexive ==
  [][/\ Dispatch(OP_EQ) /\ sp >= 2 /\ OperandA = OperandB =>
          /\ pc' = "run"
          /\ StackAt(stack', sp' - 1) = value_new_boolean(TRUE)
     /\ Dispatch(OP_NEQ) /\ sp >= 2 /\ OperandA = OperandB =>
          /\ pc' = "run"
          /\ StackAt(stack', sp' - 1) = value_new_boolean(FALSE)]_vars

(***************************************************************************)
(* C39: the builtins and the compiler.                                     *)
(***************************************************************************)
\* C39: every name bound in the run-time globals when execution starts is
\* known to the compile-time globals, so that a script that refers to a
\* builtin compiles
C39_BuiltinsKnownToCompiler ==
  /\ pc = "run" /\ effects = {} => DOMAIN globals \subseteq DOMAIN parser.globals
  /\ src = BuiltinCallSource => pc # "rejected"


(***************************************************************************)
(* C40.  The dynamic list refines the sequence its client has built: after *)
(* any calls of add, insert, remove, set and clear the size is at most the *)
(* capacity, the capacity is 8 doubled some number of times, and positions *)
(* 0..size-1 hold the client's elements in the order of the sequence,      *)
(* where an insert at an index above the size and a set or a remove at an  *)
(* index not below the size leave the sequence as it was.                  *)
(***************************************************************************)
ListElements == [i \in 1..dynList.size |-> dynList.data[i]]

C40_ListRefinesSequence ==
  pc = "list" =>
    /\ dynList.size <= dynList.capacity
    /\ IsPowerOfTwoFrom8(dynList.capacity)
    /\ Len(dynList.data) = dynList.capacity
    /\ ListElements = elems

====
